---- MODULE Spec2Model ----
(***************************************************************************)
(* Adaptive spatial subdivision trees (quad-tree, oct-tree, planet-tree)   *)
(* of the crate spatial_trees: arena of nodes, refinement passes (insert), *)
(* neighbour search (get_neighbors) of the three trees, across the cube    *)
(* edges for the planet-tree, and neighbour-size bookkeeping of the        *)
(* quad-tree and of the oct-tree.                                          *)
(*                                                                         *)
(* Lengths are integers: one model unit is a fixed power-of-two fraction   *)
(* of the f32 unit, so that the halvings and quarterings the code performs *)
(* (size / 2.0, size / 4.0) are exact, as they are in binary floating      *)
(* point.  Node keys are the keys handed out by the slot map: every insert *)
(* returns a key that was never returned before.                           *)
(***************************************************************************)
EXTENDS Integers, Sequences, FiniteSets, TLC

VARIABLES
    kind,       \* "quad" (NTree<QuadTreeNode, 2>), "oct" (NTree<OctTreeNode, 3>)
                \* or "planet" (PlanetTree)
    min_size,   \* NTree::min_size, PlanetTree::min_size
    roots,      \* <<NTree::root>>, PlanetTree::roots
    nodes,      \* the arena NTree::nodes, PlanetTree::nodes: live key -> node
    nextKey,    \* the next key the slot map hands out
    events,     \* the event list returned by the last pass
    lastOp,     \* the public operation that ran last
    lastPred,   \* the predicate given to the last pass
    passes,     \* number of passes run so far with a predicate of the caller's choice
    repeats,    \* number of calls repeated since, with the predicate of the last pass
    roundTrip,  \* the shrink-grow round trip of the caller: how far it is, and the
                \* predicate and the leaves (centre, size) of the tree it started from
    work        \* the pass that is running, when its loop is followed one iteration
                \* at a time: pending_node_keys, and the keys popped so far, in order

vars == <<kind, min_size, roots, nodes, nextKey, events, lastOp, lastPred, passes, repeats,
          roundTrip, work>>

(***************************************************************************)
(* Bounds of the model.                                                    *)
(***************************************************************************)
\* passes explored from a new tree
MaxPasses == 2
\* largest number of growable nodes a predicate of the explored family holds on,
\* in a quad-tree and in an oct-tree
MaxTrueQuad == 3
MaxTrueOct == 2
\* the same in a planet-tree
MaxTruePlanet == 2
\* the same for the predicates that hold on leaves only
MaxLeafOnly == 1
\* calls repeated with the predicate of the pass before
MaxRepeats == 1
\* the same as MaxTrueQuad for the passes followed one iteration at a time
MaxTrueStepped == 2
\* iterations of the loop of one pass that are followed
MaxIterations == 200

\* Option::None of a key
NoKey == 0

\* the sentinel of neighbor_sizes
Unknown == -1

\* const D of the tree kind k
DimOf(k) == IF k = "oct" THEN 3 ELSE 2

D == DimOf(kind)

\* the trees constructed: kind, root size and min_size (root centre is the origin)
Configs ==
    { [kind |-> "quad", size |-> 8,  min_size |-> 8],
      [kind |-> "quad", size |-> 24, min_size |-> 8],
      [kind |-> "quad", size |-> 32, min_size |-> 4],
      [kind |-> "oct",  size |-> 8,  min_size |-> 4],
      [kind |-> "oct",  size |-> 16, min_size |-> 4],
      [kind |-> "planet", size |-> 8,  min_size |-> 4],
      [kind |-> "planet", size |-> 16, min_size |-> 4] }

\* arguments new takes that are outside 0 < min_size <= size
InvalidArguments ==
    { [kind |-> "quad", size |-> 32, min_size |-> 0],
      [kind |-> "quad", size |-> 32, min_size |-> -4],
      [kind |-> "oct",  size |-> 4,  min_size |-> 8],
      [kind |-> "planet", size |-> 4, min_size |-> 8] }

\* the arguments of new: no value of min_size or size is refused
Arguments == Configs \cup InvalidArguments

(***************************************************************************)
(* Small arithmetic helpers.                                               *)
(***************************************************************************)
Abs(x) == IF x < 0 THEN -x ELSE x

\* Rust's i32 division by two truncates toward zero
TruncDiv2(x) == IF x >= 0 THEN x \div 2 ELSE -((-x) \div 2)

\* i32::clamp(0, 1)
Clamp01(x) == IF x < 0 THEN 0 ELSE IF x > 1 THEN 1 ELSE x

Pow2(n) == IF n = 0 THEN 1 ELSE IF n = 1 THEN 2 ELSE IF n = 2 THEN 4 ELSE 8

SetMax(S) == CHOOSE x \in S : \A y \in S : y <= x

Last(s) == s[Len(s)]

Front(s) == SubSeq(s, 1, Len(s) - 1)

RECURSIVE SeqSum(_)
SeqSum(s) == IF s = <<>> THEN 0 ELSE s[1] + SeqSum(Tail(s))

\* the elements of a sequence
Range(s) == { s[i] : i \in 1..Len(s) }

\* the array with the elements f[1], ..., f[Len(f)], evaluated at once
Vec(f) == SubSeq(f, 1, Len(f))

\* the map with the entries of f, evaluated at once
Map(f) == f @@ <<>>

\* a vector with every component negated (e *= -1)
Negate(v) == Vec([i \in 1..Len(v) |-> -v[i]])

(***************************************************************************)
(* node_traits.rs                                                          *)
(***************************************************************************)
\* Boundary::from_bounds of QuadTreeNode / OctTreeNode
from_bounds(k, size, pos) ==
    [ size |-> size,
      pos |-> pos,
      neighbor_sizes |-> Vec([i \in 1..(2 * DimOf(k)) |-> Unknown]),
      parent |-> NoKey,
      children |-> <<>> ]

has_children(node) == node.children # <<>>

RECURSIVE child_position_from(_, _, _)
child_position_from(child_index, i, dim) ==
    IF i = dim THEN <<>>
    ELSE LET v == child_index % ((i + 1) * 2)
         IN  <<IF v = 0 THEN -1 ELSE 1>> \o child_position_from(child_index - v, i + 1, dim)

\* child_position::<dim>(child_index)
child_position(child_index, dim) == child_position_from(child_index, 0, dim)

\* ChildBehaviour::get_child_index: position (0-based) of a key in the children array
get_child_index(node, child) ==
    LET hits == { i \in 1..Len(node.children) : node.children[i] = child }
    IN  IF hits = {} THEN -1 ELSE (CHOOSE i \in hits : \A j \in hits : i <= j) - 1

\* ChildBehaviour::child_position_from_key (unwrapped by the callers)
child_position_from_key(node, child) ==
    child_position(get_child_index(node, child), Len(node.pos))

\* get_child_slot with the weight i + 1 on every axis: 1, 2, 3 and not 1, 2, 4
get_child_slot_linear_weights(direction) ==
    SeqSum([i \in 1..Len(direction) |-> Clamp01(direction[i]) * ((i - 1) + 1)])

\* ChildBehaviour::get_child: the linear index of a direction
get_child_slot(direction) ==
    SeqSum([i \in 1..Len(direction) |->
        Clamp01(direction[i]) * ((i - 1) + 1 + Clamp01((i - 1) - 1))])

\* ChildBehaviour::get_child, NoKey when the node is a leaf
get_child(node, direction) ==
    IF node.children = <<>> THEN NoKey
    ELSE node.children[get_child_slot(direction) + 1]

\* neighbor_index with the arms of -1 and 1 exchanged
neighbor_index_arms_exchanged(direction) ==
    -1 + SeqSum([i \in 1..Len(direction) |->
            IF direction[i] = -1 THEN (i - 1) * 2 + 2
            ELSE IF direction[i] = 1 THEN (i - 1) * 2 + 1
            ELSE 0])

\* neighbor_index, -1 for Option::None
neighbor_index(direction) ==
    -1 + SeqSum([i \in 1..Len(direction) |->
            IF direction[i] = -1 THEN (i - 1) * 2 + 1
            ELSE IF direction[i] = 1 THEN (i - 1) * 2 + 2
            ELSE 0])

RECURSIVE check_dir_from(_, _, _, _, _)
check_dir_from(check_dir, child_index, pos, non_zero_index, dim) ==
    IF pos = dim - 1 THEN check_dir
    ELSE LET v == child_index % ((pos + 1) * 2)
             s == IF v = 0 THEN -1 ELSE 1
             at == IF pos < non_zero_index THEN pos ELSE pos + 1
         IN  check_dir_from([check_dir EXCEPT ![at + 1] = s], child_index - v,
                            pos + 1, non_zero_index, dim)

\* child_positions_in_direction: the children of a node on its face in a direction
child_positions_in_direction(direction) ==
    LET dim == Len(direction)
        non_zero_index == (CHOOSE i \in 1..dim :
                              direction[i] # 0 /\ \A j \in 1..(i - 1) : direction[j] = 0) - 1
        num_border_children == Pow2(dim) \div 2
    IN  Vec([c \in 1..num_border_children |->
            check_dir_from(direction, c - 1, 0, non_zero_index, dim)])

\* all_neighbor_directions::<dim>()
all_neighbor_directions(dim) ==
    Vec([n \in 1..(dim * 2) |->
        LET i == n - 1
            v == IF i % 2 = 0 THEN -1 ELSE 1
        IN  Vec([a \in 1..dim |-> IF a - 1 = i % dim THEN v ELSE 0])])

\* Boundary::contains_point (strict on both sides)
contains_point(node, pos) ==
    LET half_size == node.size \div 2
    IN  \A i \in 1..Len(pos) :
            node.pos[i] - half_size < pos[i] /\ pos[i] < node.pos[i] + half_size

(***************************************************************************)
(* planet_tree_node.rs, planet_tree_impl.rs: the faces of the planet-tree  *)
(***************************************************************************)
\* the directions PlanetTree::new makes a root for, in its order
FaceDirections ==
    << <<-1, 0, 0>>, <<1, 0, 0>>, <<0, -1, 0>>, <<0, 1, 0>>, <<0, 0, -1>>, <<0, 0, 1>> >>

\* impl From<[i32; 3]> for Direction
DirectionFrom(v) ==
    CASE v = <<1, 0, 0>> -> "XPos"
      [] v = <<-1, 0, 0>> -> "XNeg"
      [] v = <<0, 1, 0>> -> "YPos"
      [] v = <<0, -1, 0>> -> "YNeg"
      [] v = <<0, 0, 1>> -> "ZPos"
      [] v = <<0, 0, -1>> -> "ZNeg"
      [] OTHER -> "None"

map_from_dir_and_world_pos(dir, pos) ==
    CASE dir \in {"XPos", "XNeg"} -> <<pos[2], pos[3]>>
      [] dir \in {"YPos", "YNeg"} -> <<pos[1], pos[3]>>
      [] dir \in {"ZPos", "ZNeg"} -> <<pos[1], pos[2]>>
      [] OTHER -> <<0, 0>>

\* map_from_dir_and_local_pos with the embedding of the X faces on every face
map_from_dir_and_local_pos_as_on_x(dir, pos, world_pos) ==
    <<world_pos[1], pos[1], pos[2]>>

map_from_dir_and_local_pos(dir, pos, world_pos) ==
    CASE dir \in {"XPos", "XNeg"} -> <<world_pos[1], pos[1], pos[2]>>
      [] dir \in {"YPos", "YNeg"} -> <<pos[1], world_pos[2], pos[2]>>
      [] dir \in {"ZPos", "ZNeg"} -> <<pos[1], pos[2], world_pos[3]>>
      [] OTHER -> world_pos

\* PlanetTreeNode::new
PlanetTreeNode_new(size, pos, world_pos, direction) ==
    [ size |-> size,
      pos |-> pos,
      neighbor_sizes |-> <<Unknown, Unknown, Unknown, Unknown>>,
      direction |-> direction,
      world_pos |-> world_pos,
      parent |-> NoKey,
      children |-> <<>> ]

\* the root PlanetTree::new makes for a direction, the tree centred at the origin
planet_root(size, direction) ==
    LET world_pos == Vec([i \in 1..3 |-> direction[i] * (size \div 2)])
        dir == DirectionFrom(direction)
    IN  PlanetTreeNode_new(size, map_from_dir_and_world_pos(dir, world_pos), world_pos, dir)

(***************************************************************************)
(* The arena (NodeStorage for NTree and PlanetTree, over SlotMap).         *)
(***************************************************************************)
\* SlotMap::insert under the key k
insert_node(ns, k, node) == (k :> node) @@ ns

\* remove_node that leaves the node in its slot
remove_node_kept(ns, k) == ns

\* SlotMap::remove
remove_node(ns, k) == Map([x \in (DOMAIN ns) \ {k} |-> ns[x]])

\* NodeStorage::get_node: the checked accessor
get_node(ns, k) == IF k \in DOMAIN ns THEN <<ns[k]>> ELSE <<>>

(***************************************************************************)
(* tree_traits.rs: TreeBehaviour                                           *)
(***************************************************************************)
\* the cell of a node: (size, centre), and the face for a node of a planet-tree
CellOf(node) ==
    IF "direction" \in DOMAIN node THEN <<node.size, node.pos, node.direction>>
    ELSE <<node.size, node.pos>>

\* the impl Fn(&NodeType) -> bool given to insert.  A predicate is a function
\* of the node; the model gives it as the set of cells on which it holds for
\* a leaf and the set on which it holds for a branch.  A predicate that does
\* not read has_children has leaf = branch.
Holds(p, node) ==
    IF has_children(node) THEN CellOf(node) \in p.branch
    ELSE CellOf(node) \in p.leaf

\* new_child with the centre moved by half the parent's size, not by a quarter
new_child_half_offset(parent, parent_key, child_index) ==
    LET dim == Len(parent.pos)
        new_size == parent.size \div 2
        pos == child_position(child_index, dim)
        child_pos == Vec([i \in 1..dim |-> parent.pos[i] + pos[i] * new_size])
    IN  [from_bounds(kind, new_size, child_pos) EXCEPT !.parent = parent_key]

\* new_child with the children placed in the reverse order of the octants
new_child_reversed(parent, parent_key, child_index) ==
    LET dim == Len(parent.pos)
        new_size == parent.size \div 2
        quart_size == parent.size \div 4
        pos == child_position(Pow2(dim) - 1 - child_index, dim)
        child_pos == Vec([i \in 1..dim |-> parent.pos[i] + pos[i] * quart_size])
    IN  [from_bounds(kind, new_size, child_pos) EXCEPT !.parent = parent_key]

\* new_child with a quarter of the parent's size, not half of it
new_child_quarter_size(parent, parent_key, child_index) ==
    LET dim == Len(parent.pos)
        quart_size == parent.size \div 4
        pos == child_position(child_index, dim)
        child_pos == Vec([i \in 1..dim |-> parent.pos[i] + pos[i] * quart_size])
    IN  [from_bounds(kind, quart_size, child_pos) EXCEPT !.parent = parent_key]

\* the body of the for loop of create_children: the child at child_index
new_child(parent, parent_key, child_index) ==
    LET dim == Len(parent.pos)
        new_size == parent.size \div 2
        quart_size == parent.size \div 4
        pos == child_position(child_index, dim)
        child_pos == Vec([i \in 1..dim |-> parent.pos[i] + pos[i] * quart_size])
    IN  [from_bounds(kind, new_size, child_pos) EXCEPT !.parent = parent_key]

RECURSIVE create_children_from(_, _, _, _, _)
\* the for loop of create_children from child_index on; keys are the keys made so far
create_children_from(ns, next, parent_key, child_index, keys) ==
    IF child_index = Pow2(Len(ns[parent_key].pos))
    THEN [nodes |-> ns, next |-> next, keys |-> keys]
    ELSE create_children_from(
            insert_node(ns, next, new_child(ns[parent_key], parent_key, child_index)),
            next + 1, parent_key, child_index + 1, Append(keys, next))

\* the end of create_children: set_child_keys on the parent
set_child_keys(made, parent_key) ==
    [made EXCEPT !.nodes = [made.nodes EXCEPT ![parent_key].children = made.keys]]

\* TreeBehaviour::create_children: [nodes, next, keys]
create_children(ns, next, parent_key) ==
    set_child_keys(create_children_from(ns, next, parent_key, 0, <<>>), parent_key)

\* planet_new_child that gives the child the tag of Boundary::from_bounds, not
\* the tag of its parent
planet_new_child_untagged(parent, parent_key, child_index) ==
    LET new_size == parent.size \div 2
        quart_size == parent.size \div 4
        pos == child_position(child_index, 2)
        child_pos == Vec([i \in 1..2 |-> parent.pos[i] + pos[i] * quart_size])
        child == PlanetTreeNode_new(
                    new_size, child_pos,
                    map_from_dir_and_local_pos(parent.direction, child_pos, parent.world_pos),
                    "None")
    IN  [child EXCEPT !.parent = parent_key]

\* the body of the for loop of PlanetTree::create_children
planet_new_child(parent, parent_key, child_index) ==
    LET new_size == parent.size \div 2
        quart_size == parent.size \div 4
        pos == child_position(child_index, 2)
        child_pos == Vec([i \in 1..2 |-> parent.pos[i] + pos[i] * quart_size])
        child == PlanetTreeNode_new(
                    new_size, child_pos,
                    map_from_dir_and_local_pos(parent.direction, child_pos, parent.world_pos),
                    parent.direction)
    IN  [child EXCEPT !.parent = parent_key]

RECURSIVE planet_create_children_from(_, _, _, _, _)
planet_create_children_from(ns, next, parent_key, child_index, keys) ==
    IF child_index = Pow2(2)
    THEN [nodes |-> ns, next |-> next, keys |-> keys]
    ELSE planet_create_children_from(
            insert_node(ns, next, planet_new_child(ns[parent_key], parent_key, child_index)),
            next + 1, parent_key, child_index + 1, Append(keys, next))

\* PlanetTree::create_children: [nodes, next, keys]
planet_create_children(ns, next, parent_key) ==
    set_child_keys(planet_create_children_from(ns, next, parent_key, 0, <<>>), parent_key)

\* self.create_children of the tree kind
self_create_children(ns, next, parent_key) ==
    IF kind = "planet" THEN planet_create_children(ns, next, parent_key)
    ELSE create_children(ns, next, parent_key)

\* remove_step that lists every key it removes, the branches too
remove_step_all_keys(st) ==
    LET node_key == Last(st.pending)
        rest == Front(st.pending)
    IN  IF node_key \in DOMAIN st.nodes
        THEN [nodes |-> remove_node(st.nodes, node_key),
              pending |-> rest \o st.nodes[node_key].children,
              removed |-> Append(st.removed, node_key)]
        ELSE [st EXCEPT !.pending = rest]

\* remove_step that does not push the children of the branch it removes
remove_step_children_skipped(st) ==
    LET node_key == Last(st.pending)
        rest == Front(st.pending)
    IN  IF node_key \in DOMAIN st.nodes
        THEN IF st.nodes[node_key].children # <<>>
             THEN [nodes |-> remove_node(st.nodes, node_key),
                   pending |-> rest,
                   removed |-> st.removed]
             ELSE [nodes |-> remove_node(st.nodes, node_key),
                   pending |-> rest,
                   removed |-> Append(st.removed, node_key)]
        ELSE [st EXCEPT !.pending = rest]

\* one iteration of the while loop of remove_children_recursively, on
\* st = [nodes, pending, removed]
remove_step(st) ==
    LET node_key == Last(st.pending)
        rest == Front(st.pending)
    IN  IF node_key \in DOMAIN st.nodes
        THEN IF st.nodes[node_key].children # <<>>
             THEN [nodes |-> remove_node(st.nodes, node_key),
                   pending |-> rest \o st.nodes[node_key].children,
                   removed |-> st.removed]
             ELSE [nodes |-> remove_node(st.nodes, node_key),
                   pending |-> rest,
                   removed |-> Append(st.removed, node_key)]
        ELSE [st EXCEPT !.pending = rest]

RECURSIVE remove_steps(_, _)
\* the next n iterations of the while loop, or those left if they are fewer
remove_steps(st, n) ==
    IF st.pending = <<>> THEN st
    ELSE IF n = 1 THEN remove_step(st)
    ELSE remove_steps(remove_steps(st, n \div 2), n - n \div 2)

RECURSIVE remove_loop(_, _)
\* the while loop of remove_children_recursively, n iterations and then the rest
remove_loop(st, n) ==
    IF st.pending = <<>> THEN st ELSE remove_loop(remove_steps(st, n), 2 * n)

\* remove_children_recursively that leaves the children array of the parent as it was
remove_children_recursively_children_left(ns, parent_key) ==
    remove_loop([nodes |-> ns, pending |-> ns[parent_key].children, removed |-> <<>>], 1)

\* TreeBehaviour::remove_children_recursively: [nodes, pending, removed]
remove_children_recursively(ns, parent_key) ==
    remove_loop([nodes |-> [ns EXCEPT ![parent_key].children = <<>>],
                 pending |-> ns[parent_key].children,
                 removed |-> <<>>], 1)

\* grow_event that keeps every key of the Grown it extends
grow_event_keep_all(ns, evs, pos, parent_key, new_children) ==
    LET hits == { i \in 1..Len(evs) :
                    evs[i].type = "Grown" /\ contains_point(ns[evs[i].parent], pos) }
    IN  IF hits # {}
        THEN [evs EXCEPT ![SetMax(hits)].children = @ \o new_children]
        ELSE Append(evs, [type |-> "Grown", parent |-> parent_key, children |-> new_children])

\* TreeBehaviour::grow_event: the event list after the grow of parent_key
grow_event(ns, evs, pos, parent_key, new_children) ==
    LET hits == { i \in 1..Len(evs) :
                    evs[i].type = "Grown" /\ contains_point(ns[evs[i].parent], pos) }
    IN  IF hits # {}
        THEN LET i == SetMax(hits)
             IN  [evs EXCEPT ![i].children =
                    SelectSeq(@, LAMBDA node_key : ~has_children(ns[node_key])) \o new_children]
        ELSE Append(evs, [type |-> "Grown", parent |-> parent_key, children |-> new_children])

\* planet_grow_event that does not compare the face tags
planet_grow_event_any_face(ns, evs, pos, parent_key, new_children) ==
    LET hits == { i \in 1..Len(evs) :
                    /\ evs[i].type = "Grown"
                    /\ contains_point(ns[evs[i].parent], pos) }
    IN  IF hits # {}
        THEN LET i == SetMax(hits)
             IN  [evs EXCEPT ![i].children =
                    SelectSeq(@, LAMBDA node_key : ~has_children(ns[node_key])) \o new_children]
        ELSE Append(evs, [type |-> "Grown", parent |-> parent_key, children |-> new_children])

\* PlanetTree::grow_event: a Grown of the same face only takes the children in
planet_grow_event(ns, evs, pos, parent_key, new_children) ==
    LET parent_direction == ns[parent_key].direction
        hits == { i \in 1..Len(evs) :
                    /\ evs[i].type = "Grown"
                    /\ ns[evs[i].parent].direction = parent_direction
                    /\ contains_point(ns[evs[i].parent], pos) }
    IN  IF hits # {}
        THEN LET i == SetMax(hits)
             IN  [evs EXCEPT ![i].children =
                    SelectSeq(@, LAMBDA node_key : ~has_children(ns[node_key])) \o new_children]
        ELSE Append(evs, [type |-> "Grown", parent |-> parent_key, children |-> new_children])

\* self.grow_event of the tree kind
self_grow_event(ns, evs, pos, parent_key, new_children) ==
    IF kind = "planet" THEN planet_grow_event(ns, evs, pos, parent_key, new_children)
    ELSE grow_event(ns, evs, pos, parent_key, new_children)

\* push_shrunk that pushes a Shrunk whether or not a node was removed
push_shrunk_always(r, evs, parent_key) ==
    [nodes |-> r.nodes,
     events |-> Append(evs, [type |-> "Shrunk", retained |-> parent_key,
                             removed |-> r.removed])]

\* the if of shrink_event on r = [nodes, removed], what the removal returned
push_shrunk(r, evs, parent_key) ==
    [nodes |-> r.nodes,
     events |-> IF r.removed # <<>>
                THEN Append(evs, [type |-> "Shrunk", retained |-> parent_key,
                                  removed |-> r.removed])
                ELSE evs]

\* TreeBehaviour::shrink_event: [nodes, events]
shrink_event(ns, evs, parent_key) ==
    push_shrunk(remove_children_recursively(ns, parent_key), evs, parent_key)

\* after_grow that does not push the new children on the work list
after_grow_children_unvisited(made, evs, parent_pos, node_key, rest) ==
    [nodes |-> made.nodes,
     next |-> made.next,
     events |-> self_grow_event(made.nodes, evs, parent_pos, node_key, made.keys),
     pending |-> rest]

\* the grow branch of insert once create_children returned made = [nodes, next, keys]
after_grow(made, evs, parent_pos, node_key, rest) ==
    [nodes |-> made.nodes,
     next |-> made.next,
     events |-> self_grow_event(made.nodes, evs, parent_pos, node_key, made.keys),
     pending |-> rest \o made.keys]

\* the else branch of insert once shrink_event returned shrunk = [nodes, events]
after_shrink(shrunk, next, rest) ==
    [nodes |-> shrunk.nodes, next |-> next, events |-> shrunk.events, pending |-> rest]

\* insert_step that leaves the key of a branch on the work list
insert_step_branch_kept(st, f) ==
    LET node_key == Last(st.pending)
        rest == Front(st.pending)
        node == st.nodes[node_key]
    IN  CASE Holds(f, node) /\ has_children(node) ->
                [st EXCEPT !.pending = st.pending]
          [] Holds(f, node) /\ ~has_children(node) /\ node.size > min_size ->
                after_grow(self_create_children(st.nodes, st.next, node_key),
                           st.events, node.pos, node_key, st.pending)
          [] Holds(f, node) /\ ~has_children(node) /\ ~(node.size > min_size) ->
                [st EXCEPT !.pending = rest]
          [] ~Holds(f, node) ->
                after_shrink(shrink_event(st.nodes, st.events, node_key), st.next, rest)

\* insert_step that does not push the children of a branch on the work list
insert_step_children_skipped(st, f) ==
    LET node_key == Last(st.pending)
        rest == Front(st.pending)
        node == st.nodes[node_key]
    IN  CASE Holds(f, node) /\ has_children(node) ->
                [st EXCEPT !.pending = rest]
          [] Holds(f, node) /\ ~has_children(node) /\ node.size > min_size ->
                after_grow(self_create_children(st.nodes, st.next, node_key),
                           st.events, node.pos, node_key, rest)
          [] Holds(f, node) /\ ~has_children(node) /\ ~(node.size > min_size) ->
                [st EXCEPT !.pending = rest]
          [] ~Holds(f, node) ->
                after_shrink(shrink_event(st.nodes, st.events, node_key), st.next, rest)

\* one iteration of the while loop of insert on st = [nodes, next, events, pending]
insert_step(st, f) ==
    LET node_key == Last(st.pending)
        rest == Front(st.pending)
        node == st.nodes[node_key]
    IN  CASE Holds(f, node) /\ has_children(node) ->
                [st EXCEPT !.pending = rest \o node.children]
          [] Holds(f, node) /\ ~has_children(node) /\ node.size > min_size ->
                after_grow(self_create_children(st.nodes, st.next, node_key),
                           st.events, node.pos, node_key, rest)
          [] Holds(f, node) /\ ~has_children(node) /\ ~(node.size > min_size) ->
                [st EXCEPT !.pending = rest]
          [] ~Holds(f, node) ->
                after_shrink(shrink_event(st.nodes, st.events, node_key), st.next, rest)

RECURSIVE insert_steps(_, _, _)
\* the next n iterations of the while loop of insert, or those left if they are fewer
insert_steps(st, f, n) ==
    IF st.pending = <<>> THEN st
    ELSE IF n = 1 THEN insert_step(st, f)
    ELSE insert_steps(insert_steps(st, f, n \div 2), f, n - n \div 2)

RECURSIVE insert_loop(_, _, _)
\* the while loop of insert, n iterations and then the rest
insert_loop(st, f, n) ==
    IF st.pending = <<>> THEN st ELSE insert_loop(insert_steps(st, f, n), f, 2 * n)

\* TreeBehaviour::root_items of NTree and of PlanetTree
root_items == roots

\* TreeBehaviour::insert on the arena ns: [nodes, next, events, pending]
insert(ns, next, f) ==
    insert_loop([nodes |-> ns, next |-> next, events |-> <<>>, pending |-> root_items], f, 1)

(***************************************************************************)
(* tree_traits.rs: TreeNeighbourBehaviour                                  *)
(***************************************************************************)
AllZero(v) == \A i \in 1..Len(v) : v[i] = 0

\* mirrored_descent without the mirroring: the node's own descent
mirrored_descent_unmirrored(node_descent, working_direction) == node_descent

\* the descent of the neighbour that mirrors node_descent along the moving axes
mirrored_descent(node_descent, working_direction) ==
    Vec([i \in 1..Len(working_direction) |->
            node_descent[i] * (1 - 2 * Abs(working_direction[i]))])

\* the working direction one level up
next_working_direction(node_descent, working_direction) ==
    Vec([i \in 1..Len(working_direction) |->
            TruncDiv2(node_descent[i] + working_direction[i])])

RECURSIVE shared_parent_loop(_, _, _, _)
RECURSIVE one_level_up(_, _, _, _, _)
\* the body of the while loop of find_shared_parent once node_descent is known
one_level_up(ns, parent, node_descent, working_direction, neighbor_descents) ==
    shared_parent_loop(ns, parent,
        next_working_direction(node_descent, working_direction),
        Append(neighbor_descents, mirrored_descent(node_descent, working_direction)))

\* the while loop of find_shared_parent: [node, working_direction, descents]
shared_parent_loop(ns, node, working_direction, neighbor_descents) ==
    LET parent == ns[node].parent
    IN  IF parent = NoKey \/ AllZero(working_direction)
        THEN [node |-> node, working_direction |-> working_direction,
              descents |-> neighbor_descents]
        ELSE one_level_up(ns, parent, child_position_from_key(ns[parent], node),
                          working_direction, neighbor_descents)

\* the end of find_shared_parent on r, what the while loop left
shared_parent_result(r) ==
    [found |-> AllZero(r.working_direction), node |-> r.node, descents |-> r.descents]

\* TreeNeighbourBehaviour::find_shared_parent: [found, node, descents]
find_shared_parent(ns, node_key, direction) ==
    shared_parent_result(shared_parent_loop(ns, node_key, direction, <<>>))

RECURSIVE neighbour_descent_from(_, _, _, _)
RECURSIVE descend_to(_, _, _, _, _)
\* the body of the for loop of neighbour_descent once get_child returned child_node
descend_to(ns, node_key, child_node, descents, i) ==
    IF child_node # NoKey
    THEN IF ~has_children(ns[child_node]) THEN child_node
         ELSE neighbour_descent_from(ns, child_node, descents, i - 1)
    ELSE neighbour_descent_from(ns, node_key, descents, i - 1)

\* the for loop of neighbour_descent over descents.iter().rev(), at position i
neighbour_descent_from(ns, node_key, descents, i) ==
    IF i = 0 THEN node_key
    ELSE descend_to(ns, node_key, get_child(ns[node_key], descents[i]), descents, i)

\* TreeNeighbourBehaviour::neighbour_descent
neighbour_descent(ns, node_key, descents) ==
    neighbour_descent_from(ns, node_key, descents, Len(descents))

RECURSIVE bordering_loop(_, _, _, _)
\* the while loop of bordering_neighbours
bordering_loop(ns, child_directions, pending_nodes, neighbors) ==
    IF pending_nodes = <<>> THEN neighbors
    ELSE LET pending_node_key == Last(pending_nodes)
             rest == Front(pending_nodes)
             node == ns[pending_node_key]
         IN  IF has_children(node)
             THEN bordering_loop(ns, child_directions,
                    rest \o Vec([i \in 1..Len(child_directions) |->
                                get_child(node, child_directions[i])]),
                    neighbors)
             ELSE bordering_loop(ns, child_directions, rest,
                                 Append(neighbors, pending_node_key))

\* bordering_neighbours that walks the children on the far side of the neighbour
bordering_neighbours_far_side(ns, neighbour_node_key, direction) ==
    bordering_loop(ns, child_positions_in_direction(direction),
                   <<neighbour_node_key>>, <<>>)

\* TreeNeighbourBehaviour::bordering_neighbours
bordering_neighbours(ns, neighbour_node_key, direction) ==
    bordering_loop(ns, child_positions_in_direction(Negate(direction)),
                   <<neighbour_node_key>>, <<>>)

\* the end of get_neighbors once neighbour_descent returned node
leaf_or_bordering(ns, node, direction) ==
    IF ~has_children(ns[node]) THEN <<node>>
    ELSE bordering_neighbours(ns, node, direction)

\* get_neighbors once find_shared_parent returned sp
neighbours_from(ns, sp, direction) ==
    IF ~sp.found THEN <<>>
    ELSE leaf_or_bordering(ns, neighbour_descent(ns, sp.node, sp.descents), direction)

\* TreeNeighbourBehaviour::get_neighbors: the keys returned, in order
get_neighbors(ns, node_key, direction) ==
    neighbours_from(ns, find_shared_parent(ns, node_key, direction), direction)

\* TreeNeighbourBehaviour::update_neighbor_size: [nodes, event]
update_neighbor_size(ns, neighbour_key, subject_size, direction) ==
    LET neighbor_size == ns[neighbour_key].size
        neighbor_size_index == neighbor_index(direction)
    IN  IF neighbor_size_index = -1 THEN [nodes |-> ns, event |-> "None"]
        ELSE LET neighbors_border_size ==
                    ns[neighbour_key].neighbor_sizes[neighbor_size_index + 1]
             IN  IF neighbors_border_size # subject_size /\ neighbor_size < subject_size
                 THEN [nodes |-> [ns EXCEPT ![neighbour_key].neighbor_sizes[neighbor_size_index + 1]
                                                = subject_size],
                       event |-> "ChangedSize"]
                 ELSE IF neighbors_border_size # subject_size
                         /\ neighbors_border_size # neighbor_size
                 THEN [nodes |-> [ns EXCEPT ![neighbour_key].neighbor_sizes[neighbor_size_index + 1]
                                                = neighbor_size],
                       event |-> "ChangedSize"]
                 ELSE [nodes |-> ns, event |-> "None"]

\* the inner for loop body of update_neighbor_sizes once update_neighbor_size
\* returned upd = [nodes, event]
neighbour_updated(st, upd, node_size, direction, neighbour_key) ==
    LET neighbour_size == upd.nodes[neighbour_key].size
    IN  [st EXCEPT
            !.nodes = upd.nodes,
            !.visited = IF upd.event = "ChangedSize" /\ neighbour_key \notin DOMAIN @
                        THEN (neighbour_key :> "ChangedSize") @@ @
                        ELSE @,
            !.neighbor_sizes = Append(@, IF neighbour_size < node_size
                                         THEN <<direction, node_size>>
                                         ELSE <<direction, neighbour_size>>)]

\* neighbour_step that gives update_neighbor_size the direction itself, not the
\* opposite one
neighbour_step_same_side(st, node_key, direction, neighbour_key) ==
    neighbour_updated(
        st,
        update_neighbor_size(st.nodes, neighbour_key, st.nodes[node_key].size, direction),
        st.nodes[node_key].size, direction, neighbour_key)

\* one iteration of the inner for loop of update_neighbor_sizes, on the neighbour
\* neighbour_key found in a direction; st = [nodes, visited, neighbor_sizes, ...]
neighbour_step(st, node_key, direction, neighbour_key) ==
    neighbour_updated(
        st,
        update_neighbor_size(st.nodes, neighbour_key, st.nodes[node_key].size,
                             Negate(direction)),
        st.nodes[node_key].size, direction, neighbour_key)

RECURSIVE directions_loop(_, _)
\* the two nested for loops of update_neighbor_sizes.  st.directions are the
\* directions still to come, st.direction is the current one and st.found the
\* neighbours of node_key in it that are still to come.
directions_loop(st, node_key) ==
    IF st.found # <<>>
    THEN directions_loop(
            [neighbour_step(st, node_key, st.direction, Head(st.found))
                EXCEPT !.found = Tail(st.found)],
            node_key)
    ELSE IF st.directions # <<>>
    THEN directions_loop(
            [st EXCEPT !.direction = Head(st.directions),
                       !.found = get_neighbors(st.nodes, node_key, Head(st.directions)),
                       !.directions = Tail(st.directions)],
            node_key)
    ELSE st

RECURSIVE write_sizes(_, _)
\* the write-back loop of update_neighbor_sizes into the node's own slots
write_sizes(node, neighbor_sizes) ==
    IF neighbor_sizes = <<>> THEN node
    ELSE write_sizes(
            [node EXCEPT !.neighbor_sizes[neighbor_index(Head(neighbor_sizes)[1]) + 1]
                            = Head(neighbor_sizes)[2]],
            Tail(neighbor_sizes))

\* the end of update_neighbor_sizes on st, what the for loops left
sizes_written(st, node_key) ==
    [nodes |-> [st.nodes EXCEPT ![node_key] = write_sizes(@, st.neighbor_sizes)],
     visited |-> (node_key :> "New") @@ st.visited]

\* TreeNeighbourBehaviour::update_neighbor_sizes: [nodes, visited]
update_neighbor_sizes(ns, node_key, visited_nodes) ==
    sizes_written(
        directions_loop(
            [nodes |-> ns, visited |-> visited_nodes, neighbor_sizes |-> <<>>,
             directions |-> all_neighbor_directions(Len(ns[node_key].pos)),
             direction |-> <<>>, found |-> <<>>],
            node_key),
        node_key)

RECURSIVE UpdatedKeys(_)
\* the keys update_neighbors_from_events calls update_neighbor_sizes on, in order
UpdatedKeys(evs) ==
    IF evs = <<>> THEN <<>>
    ELSE (IF Head(evs).type = "Grown" THEN Head(evs).children
          ELSE IF Head(evs).type = "Shrunk" THEN <<Head(evs).retained>>
          ELSE <<>>) \o UpdatedKeys(Tail(evs))

\* the state of the for loops once update_neighbor_sizes returned upd
key_updated(upd, keys) == [nodes |-> upd.nodes, visited |-> upd.visited, keys |-> keys]

RECURSIVE events_steps(_, _)
\* the next n iterations of the for loops of update_neighbors_from_events, on
\* st = [nodes, visited, keys]
events_steps(st, n) ==
    IF st.keys = <<>> THEN st
    ELSE IF n = 1
    THEN key_updated(update_neighbor_sizes(st.nodes, Head(st.keys), st.visited),
                     Tail(st.keys))
    ELSE events_steps(events_steps(st, n \div 2), n - n \div 2)

\* the for loops of update_neighbors_from_events, over all the keys
events_loop(st) == events_steps(st, Len(st.keys) + 1)

\* TreeNeighbourBehaviour::update_neighbors_from_events: [nodes, visited];
\* the event list is left as insert returned it
update_neighbors_from_events(ns, evs) ==
    events_loop([nodes |-> ns, visited |-> <<>>, keys |-> UpdatedKeys(evs)])

\* insert_and_update_neighbors once insert returned ins
neighbours_updated(ins) ==
    [nodes |-> update_neighbors_from_events(ins.nodes, ins.events).nodes,
     next |-> ins.next,
     events |-> ins.events]

\* TreeNeighbourBehaviour::insert_and_update_neighbors: [nodes, next, events]
insert_and_update_neighbors(ns, next, f) ==
    neighbours_updated(insert(ns, next, f))

(***************************************************************************)
(* planet_tree_impl.rs: TreeNeighbourBehaviour for PlanetTree              *)
(***************************************************************************)
\* Direction as usize
DirectionIndex(dir) ==
    CASE dir = "XNeg" -> 0
      [] dir = "XPos" -> 1
      [] dir = "YNeg" -> 2
      [] dir = "YPos" -> 3
      [] dir = "ZNeg" -> 4
      [] dir = "ZPos" -> 5
      [] OTHER -> 6

\* first_arm with the faces of the -1 and +1 arms exchanged
first_arm_swapped(faces, dir) ==
    IF dir[1] = -1 THEN faces[2]
    ELSE IF dir[1] = 1 THEN faces[1]
    ELSE IF dir[2] = -1 THEN faces[4]
    ELSE IF dir[2] = 1 THEN faces[3]
    ELSE "None"

\* the match on dir of map_to_neighbor, the arms tried in their order:
\* faces = the faces of the arms [-1, _], [1, _], [_, -1], [_, 1]
first_arm(faces, dir) ==
    IF dir[1] = -1 THEN faces[1]
    ELSE IF dir[1] = 1 THEN faces[2]
    ELSE IF dir[2] = -1 THEN faces[3]
    ELSE IF dir[2] = 1 THEN faces[4]
    ELSE "None"

\* the face to_dir of map_to_neighbor
neighbor_face(from_dir, dir) ==
    CASE from_dir \in {"XPos", "XNeg"} -> first_arm(<<"YNeg", "YPos", "ZNeg", "ZPos">>, dir)
      [] from_dir \in {"YPos", "YNeg"} -> first_arm(<<"XNeg", "XPos", "ZNeg", "ZPos">>, dir)
      [] from_dir \in {"ZPos", "ZNeg"} -> first_arm(<<"XNeg", "XPos", "YNeg", "YPos">>, dir)
      [] OTHER -> "None"

\* the values of enum NeighborTransform
Mirror(axis) == [type |-> "Mirror", clockwise |-> FALSE, axis |-> axis]

Rotate(clockwise) == [type |-> "Rotate", clockwise |-> clockwise, axis |-> 0]

RotateMirror(clockwise, axis) == [type |-> "RotateMirror", clockwise |-> clockwise, axis |-> axis]

NoTransform == [type |-> "None", clockwise |-> FALSE, axis |-> 0]

transform_from_dir_to_dir(from_dir, to_dir) ==
    CASE from_dir = "XPos" ->
            ( CASE to_dir = "XNeg" -> Mirror(0)
                [] to_dir = "YPos" -> Mirror(0)
                [] to_dir = "ZNeg" -> RotateMirror(TRUE, 1)
                [] to_dir = "ZPos" -> Rotate(FALSE)
                [] OTHER -> NoTransform )
      [] from_dir = "XNeg" ->
            ( CASE to_dir = "XPos" -> Mirror(0)
                [] to_dir = "YNeg" -> Mirror(0)
                [] to_dir = "ZNeg" -> Rotate(FALSE)
                [] to_dir = "ZPos" -> RotateMirror(TRUE, 1)
                [] OTHER -> NoTransform )
      [] from_dir = "YPos" ->
            ( CASE to_dir = "XPos" -> Mirror(0)
                [] to_dir = "YNeg" -> Mirror(1)
                [] to_dir = "ZPos" -> Mirror(1)
                [] OTHER -> NoTransform )
      [] from_dir = "YNeg" ->
            ( CASE to_dir = "XNeg" -> Mirror(0)
                [] to_dir = "YPos" -> Mirror(1)
                [] to_dir = "ZNeg" -> Mirror(1)
                [] OTHER -> NoTransform )
      [] from_dir = "ZPos" ->
            ( CASE to_dir = "XNeg" -> RotateMirror(TRUE, 1)
                [] to_dir = "XPos" -> Rotate(TRUE)
                [] to_dir = "YPos" -> Mirror(1)
                [] to_dir = "ZNeg" -> Mirror(1)
                [] OTHER -> NoTransform )
      [] from_dir = "ZNeg" ->
            ( CASE to_dir = "XNeg" -> Rotate(TRUE)
                [] to_dir = "XPos" -> RotateMirror(TRUE, 1)
                [] to_dir = "YNeg" -> Mirror(1)
                [] to_dir = "ZPos" -> Mirror(1)
                [] OTHER -> NoTransform )
      [] OTHER -> NoTransform

\* map_to_neighbor: [dir, transform]
map_to_neighbor(from_dir, dir) ==
    [dir |-> neighbor_face(from_dir, dir),
     transform |-> transform_from_dir_to_dir(from_dir, neighbor_face(from_dir, dir))]

\* simple_rotate: one coordinate negated, then the two swapped
simple_rotate(clockwise, coord) ==
    IF clockwise THEN <<coord[2], -coord[1]>> ELSE <<-coord[2], coord[1]>>

\* mirror: coord[index] negated, index counted from 0
mirror(index, coord) ==
    Vec([i \in 1..Len(coord) |-> IF i = index + 1 THEN -coord[i] ELSE coord[i]])

\* map_from_dir_to_dir that leaves the direction in the frame of from_dir
map_from_dir_to_dir_unmapped(from_dir, to_dir, dir) == dir

\* map_from_dir_to_dir: a direction of the face from_dir in the frame of to_dir
map_from_dir_to_dir(from_dir, to_dir, dir) ==
    IF from_dir # to_dir
    THEN LET transform == transform_from_dir_to_dir(from_dir, to_dir)
         IN  CASE transform.type = "Mirror" -> mirror(transform.axis, dir)
               [] transform.type = "Rotate" -> simple_rotate(transform.clockwise, dir)
               [] transform.type = "RotateMirror" ->
                     mirror(transform.axis, simple_rotate(transform.clockwise, dir))
               [] OTHER -> dir
    ELSE dir

\* neighbour_opposite_dir of PlanetTree::update_neighbor_sizes: the direction
\* given to update_neighbor_size for the neighbour found in direction
neighbour_opposite_dir(ns, node_key, neighbour_key, direction) ==
    map_from_dir_to_dir(ns[node_key].direction, ns[neighbour_key].direction,
                        Negate(direction))

\* simple_rotate that turns the other way
transformed_descent_turned_back(transform, descent) ==
    CASE transform.type = "Mirror" -> mirror(transform.axis, descent)
      [] transform.type = "Rotate" -> simple_rotate(~transform.clockwise, descent)
      [] transform.type = "RotateMirror" ->
            mirror(transform.axis, simple_rotate(~transform.clockwise, descent))
      [] OTHER -> descent

\* the match on neighbor_transform of PlanetTree::find_shared_parent, on one descent
transformed_descent(transform, descent) ==
    CASE transform.type = "Mirror" -> mirror(transform.axis, descent)
      [] transform.type = "Rotate" -> simple_rotate(transform.clockwise, descent)
      [] transform.type = "RotateMirror" ->
            mirror(transform.axis, simple_rotate(transform.clockwise, descent))
      [] OTHER -> descent

\* the face root and the descents on it, to = what map_to_neighbor returned
across_the_edge(to, neighbor_descents) ==
    [found |-> TRUE,
     node |-> roots[DirectionIndex(to.dir) + 1],
     descents |-> Vec([i \in 1..Len(neighbor_descents) |->
                        transformed_descent(to.transform, neighbor_descents[i])])]

\* the end of PlanetTree::find_shared_parent on r, what the while loop left
planet_shared_parent_result(ns, r) ==
    IF ~AllZero(r.working_direction)
    THEN across_the_edge(map_to_neighbor(ns[r.node].direction, r.working_direction),
                         r.descents)
    ELSE [found |-> TRUE, node |-> r.node, descents |-> r.descents]

\* PlanetTree::find_shared_parent: [found, node, descents], found always
planet_find_shared_parent(ns, node_key, direction) ==
    planet_shared_parent_result(ns, shared_parent_loop(ns, node_key, direction, <<>>))

\* TreeNeighbourBehaviour::get_neighbors of a PlanetTree
planet_get_neighbors(ns, node_key, direction) ==
    neighbours_from(ns, planet_find_shared_parent(ns, node_key, direction), direction)

(***************************************************************************)
(* The predicates explored.  Within one pass a node is visited at most     *)
(* once and a node below a node on which the predicate fails is not        *)
(* visited, so a pass with any predicate runs as the pass with the         *)
(* predicate that holds on a parent-closed set of cells.                   *)
(***************************************************************************)
\* the cells create_children makes below the cell c
ChildCells(c) ==
    { <<c[1] \div 2,
        Vec([i \in 1..Len(c[2]) |->
                c[2][i] + child_position(j, Len(c[2]))[i] * (c[1] \div 4)])>>
      \o SubSeq(c, 3, Len(c)) :
        j \in 0..(Pow2(Len(c[2])) - 1) }

RECURSIVE CellsBelow(_, _)
\* c and every cell a sequence of grows can make below it in a tree of min_size ms
CellsBelow(c, ms) ==
    IF c[1] > ms THEN {c} \cup UNION { CellsBelow(k, ms) : k \in ChildCells(c) } ELSE {c}

\* the cells of the roots of the tree constructed from cfg
RootCellsOf(cfg) ==
    IF cfg.kind = "planet"
    THEN { <<cfg.size, <<0, 0>>, DirectionFrom(FaceDirections[i])>> : i \in 1..6 }
    ELSE { <<cfg.size, Vec([i \in 1..DimOf(cfg.kind) |-> 0])>> }

\* the cells insert can grow that keep the set T parent-closed when added to it
Extensions(T, cfg) ==
    { k \in (RootCellsOf(cfg) \cup UNION { ChildCells(t) : t \in T }) \ T :
        k[1] > cfg.min_size }

\* the bound on the cells of a predicate of the family, per tree kind
MaxTrueOf(k) ==
    IF k = "oct" THEN MaxTrueOct ELSE IF k = "planet" THEN MaxTruePlanet ELSE MaxTrueQuad

RECURSIVE Shapes(_, _)
\* the parent-closed sets of at most n cells that insert can grow
Shapes(n, cfg) ==
    IF n = 0 THEN {{}}
    ELSE LET prev == Shapes(n - 1, cfg)
         IN  prev \cup UNION { { T \cup {c} : c \in Extensions(T, cfg) } : T \in prev }

\* the predicate that holds everywhere, for a tree whose pass with it returns:
\* with min_size <= 0 every leaf of that pass grows again
EverywhereOf(cfg) ==
    IF cfg.min_size > 0
    THEN { UNION { CellsBelow(c, cfg.min_size) : c \in RootCellsOf(cfg) } }
    ELSE {}

\* predicates that read size and centre only: one per parent-closed set, and
\* the predicate that holds everywhere
GeometricPredicatesOf(cfg) ==
    { [leaf |-> T, branch |-> T] :
        T \in Shapes(MaxTrueOf(cfg.kind), cfg) \cup EverywhereOf(cfg) }

\* predicates that hold on leaves only: they also read has_children
LeafOnlyPredicatesOf(cfg) ==
    { [leaf |-> T, branch |-> {}] : T \in Shapes(MaxLeafOnly, cfg) \ {{}} }

GeometricTable == [cfg \in Arguments |-> GeometricPredicatesOf(cfg)]

\* the predicates of the passes followed one iteration at a time
SteppedTable ==
    [cfg \in Arguments |->
        { [leaf |-> T, branch |-> T] : T \in Shapes(MaxTrueStepped, cfg) \cup EverywhereOf(cfg) }]

LeafOnlyTable == [cfg \in Arguments |-> LeafOnlyPredicatesOf(cfg)]

\* the arguments the tree was constructed with
Config ==
    CHOOSE cfg \in Arguments :
        cfg.kind = kind /\ cfg.min_size = min_size /\ cfg.size = nodes[roots[1]].size

GeometricPredicates == GeometricTable[Config]

SteppedPredicates == SteppedTable[Config]

LeafOnlyPredicates == LeafOnlyTable[Config]

Predicates == GeometricPredicates \cup LeafOnlyPredicates

(***************************************************************************)
(* The state machine.                                                      *)
(***************************************************************************)
\* the predicate that is false on every node
Nowhere == [leaf |-> {}, branch |-> {}]

\* the leaves of the arena ns, each by its centre and size (and face)
LeafCells(ns) == { CellOf(ns[k]) : k \in { x \in DOMAIN ns : ~has_children(ns[x]) } }

\* no round trip begun
NoRoundTrip == [stage |-> "none", pred |-> Nowhere, leaves |-> {}]

\* no pass running
NoWork == [pending |-> <<>>, popped |-> <<>>]

\* NTree::new(min_size, size, pos) and PlanetTree::new(min_size, size, pos)
\* with pos the origin
new(c) ==
    /\ kind = c.kind
    /\ min_size = c.min_size
    /\ IF c.kind = "planet"
       THEN /\ roots = <<1, 2, 3, 4, 5, 6>>
            /\ nodes = Vec([i \in 1..6 |-> planet_root(c.size, FaceDirections[i])])
            /\ nextKey = 7
       ELSE /\ roots = <<1>>
            /\ nodes = insert_node(<<>>, 1,
                          from_bounds(c.kind, c.size, Vec([i \in 1..DimOf(c.kind) |-> 0])))
            /\ nextKey = 2
    /\ events = <<>>
    /\ lastOp = "new"
    /\ lastPred = [leaf |-> {}, branch |-> {}]
    /\ passes = 0
    /\ repeats = 0
    /\ roundTrip = NoRoundTrip
    /\ work = NoWork

\* a tree constructed with 0 < min_size <= size
Init == \E c \in Configs : new(c)

\* a tree constructed with any arguments
InitNew == \E c \in Arguments : new(c)

\* the pass returns r: the arena and the slot map as the pass left them, and the
\* event list
Returns(r) ==
    /\ nodes' = r.nodes
    /\ nextKey' = r.next
    /\ events' = r.events

\* a call of insert(f)
Insert(f) ==
    /\ passes < MaxPasses
    /\ Returns(insert(nodes, nextKey, f))
    /\ lastOp' = "insert"
    /\ lastPred' = f
    /\ passes' = passes + 1
    /\ repeats' = 0
    /\ UNCHANGED <<kind, min_size, roots, roundTrip, work>>

\* a call of insert_and_update_neighbors(f) on a quad-tree or an oct-tree
InsertAndUpdateNeighbors(f) ==
    /\ kind # "planet"
    /\ passes < MaxPasses
    /\ Returns(insert_and_update_neighbors(nodes, nextKey, f))
    /\ lastOp' = "insert_and_update_neighbors"
    /\ lastPred' = f
    /\ passes' = passes + 1
    /\ repeats' = 0
    /\ UNCHANGED <<kind, min_size, roots, roundTrip, work>>

\* a call of insert_and_update_neighbors right after one, with the same predicate
InsertAndUpdateNeighborsAgain ==
    /\ lastOp = "insert_and_update_neighbors"
    /\ repeats < MaxRepeats
    /\ Returns(insert_and_update_neighbors(nodes, nextKey, lastPred))
    /\ repeats' = repeats + 1
    /\ UNCHANGED <<kind, min_size, roots, lastOp, lastPred, passes, roundTrip, work>>

\* a call of insert with the predicate that is false everywhere, on the tree that
\* the last explored pass, an insert(p) with p of size and centre only, returned
InsertFalseEverywhere ==
    /\ passes = MaxPasses
    /\ lastOp = "insert"
    /\ lastPred \in GeometricPredicates
    /\ roundTrip.stage = "none"
    /\ Returns(insert(nodes, nextKey, Nowhere))
    /\ lastPred' = Nowhere
    /\ roundTrip' = [stage |-> "shrunk", pred |-> lastPred, leaves |-> LeafCells(nodes)]
    /\ UNCHANGED <<kind, min_size, roots, lastOp, passes, repeats, work>>

\* the call of insert(p) that follows it, with the predicate p of the tree it shrank
InsertAfterShrink ==
    /\ roundTrip.stage = "shrunk"
    /\ Returns(insert(nodes, nextKey, roundTrip.pred))
    /\ lastPred' = roundTrip.pred
    /\ roundTrip' = [roundTrip EXCEPT !.stage = "regrown"]
    /\ UNCHANGED <<kind, min_size, roots, lastOp, passes, repeats, work>>

Next ==
    \/ \E f \in Predicates : Insert(f)
    \/ \E f \in Predicates : InsertAndUpdateNeighbors(f)
    \/ InsertAndUpdateNeighborsAgain
    \/ InsertFalseEverywhere
    \/ InsertAfterShrink

Spec == Init /\ [][Next]_vars

\* only full refinement passes, starting from new
NextNeighbors ==
    \/ \E f \in Predicates : InsertAndUpdateNeighbors(f)
    \/ InsertAndUpdateNeighborsAgain

SpecNeighbors == Init /\ [][NextNeighbors]_vars

\* the passes on a tree constructed with any arguments
SpecNew == InitNew /\ [][Next]_vars

\* insert(f) is called: let mut events = vec![]; pending_node_keys = root_items()
InsertCalled(f) ==
    /\ lastOp # "inserting"
    /\ passes < MaxPasses
    /\ events' = <<>>
    /\ work' = [pending |-> root_items, popped |-> <<>>]
    /\ lastOp' = "inserting"
    /\ lastPred' = f
    /\ passes' = passes + 1
    /\ UNCHANGED <<kind, min_size, roots, nodes, nextKey, repeats, roundTrip>>

\* the iteration left the pass in st = [nodes, next, events, pending]
Iterated(st) ==
    /\ nodes' = st.nodes
    /\ nextKey' = st.next
    /\ events' = st.events
    /\ work' = [pending |-> st.pending, popped |-> Append(work.popped, Last(work.pending))]

\* the while loop of insert has an iteration to run
IterationEnabled ==
    /\ lastOp = "inserting"
    /\ work.pending # <<>>
    /\ Len(work.popped) < MaxIterations

\* one iteration of the while loop of insert
InsertIteration ==
    /\ IterationEnabled
    /\ Iterated(insert_step([nodes |-> nodes, next |-> nextKey, events |-> events,
                              pending |-> work.pending], lastPred))
    /\ UNCHANGED <<kind, min_size, roots, lastOp, lastPred, passes, repeats, roundTrip>>

\* the while loop of insert has ended
ReturnEnabled ==
    /\ lastOp = "inserting"
    /\ work.pending = <<>>

\* pending_node_keys.pop() is None: the while loop ends and insert returns events
InsertReturns ==
    /\ ReturnEnabled
    /\ lastOp' = "insert"
    /\ work' = NoWork
    /\ UNCHANGED <<kind, min_size, roots, nodes, nextKey, events, lastPred, passes,
                   repeats, roundTrip>>

NextSteps ==
    \/ \E f \in SteppedPredicates : InsertCalled(f)
    \/ InsertIteration
    \/ InsertReturns

\* the passes of insert, one iteration of the loop at a time.  The call runs
\* on: weak fairness of the iteration and of the return, each written with
\* its guard for its enabling condition (every iteration changes work.popped)
SpecSteps ==
    /\ Init /\ [][NextSteps]_vars
    /\ ([]<>~IterationEnabled) \/ ([]<><<InsertIteration>>_vars)
    /\ ([]<>~ReturnEnabled) \/ ([]<><<InsertReturns>>_vars)

(***************************************************************************)
(* Vocabulary of the properties.                                           *)
(***************************************************************************)
Keys == DOMAIN nodes

\* the leaves of the arena, as iter_leaf_nodes yields them
Leaves == { k \in Keys : ~has_children(nodes[k]) }

Branches == { k \in Keys : has_children(nodes[k]) }

RECURSIVE DescendantsIn(_, _)
\* the keys below k in the arena ns, through the children arrays
DescendantsIn(ns, k) ==
    IF k \notin DOMAIN ns THEN {}
    ELSE UNION { {c} \cup DescendantsIn(ns, c) : c \in Range(ns[k].children) }

\* the leaves of the subtree of k in the arena ns
LeavesUnderIn(ns, k) ==
    { x \in ({k} \cup DescendantsIn(ns, k)) \cap DOMAIN ns : ~has_children(ns[x]) }

RECURSIVE AncestorsIn(_, _)
\* the keys above k in the arena ns, through the parent keys
AncestorsIn(ns, k) ==
    IF ns[k].parent = NoKey THEN {}
    ELSE {ns[k].parent} \cup AncestorsIn(ns, ns[k].parent)

\* the indexes of the events of a type in an event list
EventsOf(evs, type) == { i \in 1..Len(evs) : evs[i].type = type }

RECURSIVE Power(_, _)
Power(b, n) == IF n = 0 THEN 1 ELSE b * Power(b, n - 1)

RECURSIVE SumOver(_, _)
\* the sum of nm[v] over the values v of V
SumOver(V, nm) ==
    IF V = {} THEN 0
    ELSE LET v == CHOOSE w \in V : TRUE IN nm[v] + SumOver(V \ {v}, nm)

\* the sum of the measures of the nodes with keys in S: the nodes of a size
\* all have the same measure
TotalMeasure(S) ==
    LET sizes == { nodes[k].size : k \in S }
    IN  SumOver(sizes, [v \in sizes |->
            Cardinality({ k \in S : nodes[k].size = v }) * Power(v, D)])

\* the area (D = 2) or volume (D = 3) of a node
Measure(node) == Power(node.size, Len(node.pos))

\* the open boxes of two nodes intersect
Overlap(a, b) ==
    \A i \in 1..Len(a.pos) : 2 * Abs(a.pos[i] - b.pos[i]) < a.size + b.size

\* the box of a lies in the box of b
Inside(a, b) ==
    \A i \in 1..Len(a.pos) :
        /\ 2 * b.pos[i] - b.size <= 2 * a.pos[i] - a.size
        /\ 2 * a.pos[i] + a.size <= 2 * b.pos[i] + b.size

\* the 2 * dim cardinal directions
CardinalDirections(dim) ==
    { Vec([i \in 1..dim |-> IF i = a THEN sgn ELSE 0]) : a \in 1..dim, sgn \in {-1, 1} }

\* the axis (1-based) of a cardinal direction
AxisOf(f) == CHOOSE a \in 1..Len(f) : f[a] # 0

\* the box of m lies against face f of the box of l and shares positive area with it
Touches(l, m, f) ==
    LET a == AxisOf(f)
    IN  /\ 2 * m.pos[a] - f[a] * m.size = 2 * l.pos[a] + f[a] * l.size
        /\ \A b \in 1..Len(f) :
              b # a => 2 * Abs(l.pos[b] - m.pos[b]) < l.size + m.size

\* face f of l lies on the boundary of the box of r
OnBoundary(l, r, f) ==
    LET a == AxisOf(f)
    IN  2 * l.pos[a] + f[a] * l.size = 2 * r.pos[a] + f[a] * r.size

\* the leaves whose box touches face f of the leaf l
TouchingLeaves(l, f) == { m \in Leaves : Touches(nodes[l], nodes[m], f) }

\* the octant (0-based child index) of the centre p seen from the centre q:
\* bit i is 1 iff p is on the + side of q along axis i
OctantOf(p, q) == SeqSum([i \in 1..Len(p) |-> IF p[i] > q[i] THEN Power(2, i - 1) ELSE 0])

(***************************************************************************)
(* C1.  Refinement floor: every node of the arena, and so every leaf, has  *)
(* size >= min_size, whatever the ratio root_size / min_size.              *)
(***************************************************************************)
C1_RefinementFloor == \A k \in Keys : nodes[k].size >= min_size

(***************************************************************************)
(* C2.  Leaf partition: after every pass the leaves under the root are     *)
(* pairwise non-overlapping, lie in the root's box, and their areas        *)
(* (volumes for the oct-tree) add up to the root's; in a planet-tree this  *)
(* holds of each of the six face roots.                                    *)
(***************************************************************************)
C2_LeafPartition ==
    \A r \in Range(roots) :
        LET under == LeavesUnderIn(nodes, r)
        IN  /\ \A k \in under : Inside(nodes[k], nodes[r])
            /\ \A k, l \in under : k # l => ~Overlap(nodes[k], nodes[l])
            /\ TotalMeasure(under) = Measure(nodes[r])

\* a pass that shrank a branch left leaves of more than one size
C2_Witness ==
    /\ passes = MaxPasses
    /\ \E i \in 1..Len(events) : events[i].type = "Shrunk"
    /\ \E r \in Range(roots) :
          Cardinality({ nodes[k].size : k \in LeavesUnderIn(nodes, r) }) >= 2

(***************************************************************************)
(* C3.  Tree shape: the root has no parent; every other node has a live    *)
(* parent whose children array holds the node's key at the index of the    *)
(* node's octant.                                                          *)
(***************************************************************************)
C3_TreeShape ==
    \A n \in Keys :
        IF n \in Range(roots) THEN nodes[n].parent = NoKey
        ELSE /\ nodes[n].parent \in Keys
             /\ LET parent == nodes[nodes[n].parent]
                    slot == OctantOf(nodes[n].pos, parent.pos)
                IN  /\ Len(parent.children) > slot
                    /\ parent.children[slot + 1] = n

\* a node two levels below a root, after a pass
C3_Witness ==
    /\ passes >= 1
    /\ \E n \in Keys :
          /\ nodes[n].parent # NoKey
          /\ nodes[nodes[n].parent].parent \in Range(roots)

(***************************************************************************)
(* C4.  Uniform refinement: a branch has exactly 2^D live children, each   *)
(* of half its size and centred a quarter of its size away along every     *)
(* axis, in 2^D distinct octants; no node has a partial set of children.   *)
(***************************************************************************)
C4_UniformRefinement ==
    \A b \in Keys :
        \/ nodes[b].children = <<>>
        \/ /\ Len(nodes[b].children) = Power(2, D)
           /\ \A i \in 1..Len(nodes[b].children) :
                 /\ nodes[b].children[i] \in Keys
                 /\ 2 * nodes[nodes[b].children[i]].size = nodes[b].size
                 /\ \A a \in 1..D :
                       4 * Abs(nodes[nodes[b].children[i]].pos[a] - nodes[b].pos[a])
                          = nodes[b].size
           /\ Cardinality({ nodes[nodes[b].children[i]].pos :
                               i \in 1..Len(nodes[b].children) }) = Power(2, D)

\* a branch below the root, beside a leaf of its own size
C4_Witness ==
    /\ passes >= 1
    /\ \E b \in Branches, l \in Leaves :
          /\ b \notin Range(roots)
          /\ nodes[b].parent = nodes[l].parent

(***************************************************************************)
(* C5.  Neighbour search (quad and oct): for every leaf L and cardinal     *)
(* direction f, get_neighbors(L, f) returns exactly the leaves whose box   *)
(* shares positive area with face f of L, each key once and no branch:     *)
(* one leaf at least as large as L, or all the smaller leaves on the face; *)
(* the result is empty exactly when face f of L is on the root's boundary. *)
(***************************************************************************)
C5_NeighborSearch ==
    kind \in {"quad", "oct"} =>
        \A l \in Leaves : \A f \in CardinalDirections(D) :
            LET found == get_neighbors(nodes, l, f)
            IN  /\ Range(found) = TouchingLeaves(l, f)
                /\ Cardinality(Range(found)) = Len(found)
                /\ \/ Len(found) <= 1 /\ \A i \in 1..Len(found) :
                                            nodes[found[i]].size >= nodes[l].size
                   \/ \A i \in 1..Len(found) : nodes[found[i]].size < nodes[l].size
                /\ (found = <<>>) <=> OnBoundary(nodes[l], nodes[roots[1]], f)

\* a leaf with several smaller leaves on one face and the root's boundary on another
C5_Witness ==
    /\ kind \in {"quad", "oct"}
    /\ passes >= 1
    /\ \E l \in Leaves : \E f, g \in CardinalDirections(D) :
          /\ Len(get_neighbors(nodes, l, f)) >= 2
          /\ get_neighbors(nodes, l, g) = <<>>

(***************************************************************************)
(* C6.  Neighbour-size freshness (quad and oct): after every sequence of   *)
(* insert_and_update_neighbors passes from new, for every leaf L and every *)
(* face f of L with a touching leaf, L.neighbor_sizes[f] is the larger of  *)
(* L.size and the size of the coarsest leaf touching L across f.           *)
(***************************************************************************)
C6_NeighborSizeFreshness ==
    kind \in {"quad", "oct"} =>
        \A l \in Leaves : \A f \in CardinalDirections(D) :
            TouchingLeaves(l, f) # {} =>
                nodes[l].neighbor_sizes[neighbor_index(f) + 1]
                    = SetMax({nodes[l].size} \cup { nodes[m].size : m \in TouchingLeaves(l, f) })

(***************************************************************************)
(* C7.  Grow-event coalescing: when a pass returns, every Grown event      *)
(* names a parent that is now a branch, and its children are exactly the   *)
(* current leaves below that parent, each key once; no Grown parent is     *)
(* below another Grown parent, and every leaf created in the pass is in    *)
(* exactly one Grown event.  A pass in which a root and one of its         *)
(* children subdivide, and nothing else does, returns exactly one Grown,   *)
(* with 2^D + (2^D - 1) children.                                          *)
(***************************************************************************)
C7_Pass ==
    LET grown == EventsOf(events', "Grown")
        created == { k \in DOMAIN nodes' : k >= nextKey /\ ~has_children(nodes'[k]) }
    IN  /\ \A i \in grown :
              /\ events'[i].parent \in DOMAIN nodes'
              /\ has_children(nodes'[events'[i].parent])
              /\ Range(events'[i].children) = LeavesUnderIn(nodes', events'[i].parent)
              /\ Cardinality(Range(events'[i].children)) = Len(events'[i].children)
        /\ \A i, j \in grown :
              i # j => /\ events'[j].parent # events'[i].parent
                       /\ events'[j].parent \notin DescendantsIn(nodes', events'[i].parent)
        /\ \A k \in created :
              Cardinality({ i \in grown : k \in Range(events'[i].children) }) = 1
        /\ \A r \in Range(roots) :
              (/\ ~has_children(nodes[r])
               /\ has_children(nodes'[r])
               /\ \E c \in Range(nodes'[r].children) : has_children(nodes'[c])
               /\ nextKey' - nextKey = 2 * Power(2, D))
              => /\ Cardinality(grown) = 1
                 /\ \A i \in grown :
                       /\ events'[i].parent = r
                       /\ Len(events'[i].children) = Power(2, D) + (Power(2, D) - 1)

C7_GrowEventCoalescing == [][C7_Pass]_vars

\* a pass from a new tree in which the root and one of its children subdivided
C7_Witness ==
    /\ passes = 1
    /\ nextKey = Len(roots) + 1 + 2 * Power(2, D)
    /\ Len(events) = 1
    /\ events[1].type = "Grown"
    /\ events[1].parent \in Range(roots)
    /\ Len(events[1].children) = 2 * Power(2, D) - 1

(***************************************************************************)
(* C8.  Shrunk event content.  The branches a pass finds the predicate     *)
(* false on are the branches whose ancestors all satisfy it.               *)
(***************************************************************************)
FoundFalseOn ==
    { n \in DOMAIN nodes :
        /\ has_children(nodes[n])
        /\ ~Holds(lastPred', nodes[n])
        /\ \A a \in AncestorsIn(nodes, n) : Holds(lastPred', nodes[a]) }

\* C8 as stated: for every branch N the pass finds the predicate false on there
\* is exactly one Shrunk event with retained = N, N is a leaf afterwards, and
\* removed is the set of all the descendants of N, branches and leaves
C8_Original_Pass ==
    \A n \in FoundFalseOn :
        LET mine == { i \in EventsOf(events', "Shrunk") : events'[i].retained = n }
        IN  /\ Cardinality(mine) = 1
            /\ n \in DOMAIN nodes' /\ ~has_children(nodes'[n])
            /\ \A i \in mine : Range(events'[i].removed) = DescendantsIn(nodes, n)

C8_Original == [][C8_Original_Pass]_vars

\* C8.  Shrunk event content, amended: for every branch N the pass finds the
\* predicate false on there is exactly one Shrunk event with retained = N, N is
\* a leaf afterwards, every descendant of N is deleted from the arena, and
\* removed lists exactly the descendants of N that were leaves, each once; no
\* other Shrunk event is emitted
C8_Pass ==
    /\ \A n \in FoundFalseOn :
          LET mine == { i \in EventsOf(events', "Shrunk") : events'[i].retained = n }
          IN  /\ Cardinality(mine) = 1
              /\ n \in DOMAIN nodes' /\ ~has_children(nodes'[n])
              /\ DescendantsIn(nodes, n) \cap DOMAIN nodes' = {}
              /\ \A i \in mine :
                    /\ Range(events'[i].removed)
                          = { d \in DescendantsIn(nodes, n) : ~has_children(nodes[d]) }
                    /\ Cardinality(Range(events'[i].removed)) = Len(events'[i].removed)
    /\ \A i \in EventsOf(events', "Shrunk") : events'[i].retained \in FoundFalseOn

C8_ShrunkContent == [][C8_Pass]_vars

\* a pass that shrank a subtree of two levels: a branch was deleted and is not listed
C8_Witness ==
    /\ passes = MaxPasses
    /\ \E i \in EventsOf(events, "Shrunk") :
          /\ ~has_children(nodes[events[i].retained])
          /\ Len(events[i].removed) = 2 * Power(2, D) - 1

(***************************************************************************)
(* C9.  Idempotence.                                                       *)
(***************************************************************************)
\* C9 as stated: for every predicate, the second of two calls in a row of
\* insert_and_update_neighbors with the same predicate returns no event and
\* leaves the tree unchanged
C9_Original ==
    [][repeats' = repeats + 1 => events' = <<>> /\ nodes' = nodes]_vars

\* C9.  Idempotence, amended: for every predicate that does not read
\* has_children, the second of two calls in a row of insert_and_update_neighbors
\* with the same predicate returns no event and leaves the tree unchanged
C9_Idempotence ==
    [][(repeats' = repeats + 1 /\ lastPred.leaf = lastPred.branch)
            => events' = <<>> /\ nodes' = nodes]_vars

\* the call was repeated on a tree whose first call grew and shrank nodes, with
\* a predicate of size and centre that fails on a leaf
C9_Witness ==
    /\ repeats = 1
    /\ passes = MaxPasses
    /\ lastPred.leaf = lastPred.branch
    /\ lastPred.leaf # {}
    /\ events = <<>>
    /\ \E l \in Leaves : ~Holds(lastPred, nodes[l])

(***************************************************************************)
(* C10.  Neighbour symmetry (quad and oct): for all leaves L and M and     *)
(* every cardinal direction f, if M is in get_neighbors(L, f) then L is in *)
(* get_neighbors(M, -f), whatever the sizes of L and M.                    *)
(***************************************************************************)
C10_NeighborSymmetry ==
    kind \in {"quad", "oct"} =>
        \A l \in Leaves : \A f \in CardinalDirections(D) :
            \A m \in Range(get_neighbors(nodes, l, f)) :
                m \in Leaves => l \in Range(get_neighbors(nodes, m, Negate(f)))

\* a leaf whose neighbours in a direction are smaller leaves, two levels below it
C10_Witness ==
    /\ kind \in {"quad", "oct"}
    /\ passes >= 1
    /\ \E l \in Leaves : \E f \in CardinalDirections(D) :
          \E m \in Range(get_neighbors(nodes, l, f)) :
              /\ m \in Leaves
              /\ 4 * nodes[m].size = nodes[l].size

(***************************************************************************)
(* The cube of a planet-tree, from the world positions of its nodes.       *)
(***************************************************************************)
\* the world axis (1-based) a face is normal to, and the side of the cube it is on
FaceAxis(dir) ==
    CASE dir \in {"XPos", "XNeg"} -> 1
      [] dir \in {"YPos", "YNeg"} -> 2
      [] dir \in {"ZPos", "ZNeg"} -> 3

FaceSign(dir) == IF dir \in {"XPos", "YPos", "ZPos"} THEN 1 ELSE -1

\* the world axes of the two local coordinates of a face
LocalAxes(dir) == SelectSeq(<<1, 2, 3>>, LAMBDA a : a # FaceAxis(dir))

\* the face of the cube across the edge of the face dir in its local direction d
FaceAcross(dir, d) ==
    DirectionFrom(Vec([a \in 1..3 |->
        IF a = LocalAxes(dir)[AxisOf(d)] THEN d[AxisOf(d)] ELSE 0]))

\* the local direction of the face dir that leaves it towards the adjacent face to
DirectionToward(dir, to) == CHOOSE d \in CardinalDirections(2) : FaceAcross(dir, d) = to

\* the world axis along the edge shared by two adjacent faces
EdgeAxis(dir, to) == CHOOSE a \in 1..3 : a # FaceAxis(dir) /\ a # FaceAxis(to)

RootSize == nodes[roots[1]].size

\* the root of a face
RootOfFace(dir) == CHOOSE r \in Range(roots) : nodes[r].direction = dir

\* side d of the node l lies on the edge of the cube
AtCubeEdge(l, d) ==
    LET i == AxisOf(d) IN 2 * l.pos[i] + d[i] * l.size = d[i] * RootSize

\* the node m lies on the face across the cube edge at side d of l, against that edge
AgainstSharedEdge(l, m, d) ==
    LET a == FaceAxis(l.direction)
    IN  /\ m.direction = FaceAcross(l.direction, d)
        /\ 2 * m.world_pos[a] + FaceSign(l.direction) * m.size
              = FaceSign(l.direction) * RootSize

\* m is against the shared edge and shares a segment of positive length with l
TouchesAcross(l, m, d) ==
    LET c == EdgeAxis(l.direction, FaceAcross(l.direction, d))
    IN  /\ AtCubeEdge(l, d)
        /\ AgainstSharedEdge(l, m, d)
        /\ 2 * Abs(l.world_pos[c] - m.world_pos[c]) < l.size + m.size

\* the leaves across the cube edge at side d of l that touch l
LeavesAcross(l, d) == { m \in Leaves : TouchesAcross(nodes[l], nodes[m], d) }

(***************************************************************************)
(* C11.  Planet cross-face transfer to a coarser face: when a face root F  *)
(* has been grown and the adjacent face root G is still a leaf, for every  *)
(* leaf L of F on the cube edge shared with G and d the local direction of *)
(* L across that edge, get_neighbors(L, d) = [G]; and get_neighbors of a   *)
(* planet-tree returns no empty list for a cardinal direction.             *)
(***************************************************************************)
C11_CrossFaceToCoarser ==
    kind = "planet" =>
        /\ \A l \in Leaves : \A d \in CardinalDirections(2) :
              LET g == RootOfFace(FaceAcross(nodes[l].direction, d))
              IN  ( /\ nodes[l].parent # NoKey
                    /\ AtCubeEdge(nodes[l], d)
                    /\ ~has_children(nodes[g]) )
                  => planet_get_neighbors(nodes, l, d) = <<g>>
        /\ \A k \in Keys : \A d \in CardinalDirections(2) :
              planet_get_neighbors(nodes, k, d) # <<>>

\* only Y+ grown, twice along its +X edge: a leaf two levels down finds the X+ root
C11_Witness ==
    /\ kind = "planet"
    /\ \A r \in Range(roots) : has_children(nodes[r]) <=> nodes[r].direction = "YPos"
    /\ \E l \in Leaves :
          /\ nodes[l].direction = "YPos"
          /\ 4 * nodes[l].size = RootSize
          /\ AtCubeEdge(nodes[l], <<1, 0>>)
          /\ planet_get_neighbors(nodes, l, <<1, 0>>) = <<RootOfFace("XPos")>>

(***************************************************************************)
(* C12.  Planet continuity at equal depth: when the six faces are refined  *)
(* uniformly to the same depth k >= 1, for every leaf L on a cube edge and *)
(* d its local direction across it, get_neighbors(L, d) is one leaf M, on  *)
(* the face adjacent across that edge, against the shared edge, with the   *)
(* world coordinate of L along the edge.                                   *)
(***************************************************************************)
UniformlyRefined ==
    \E l \in Leaves :
        /\ nodes[l].size < RootSize
        /\ \A m \in Leaves : nodes[m].size = nodes[l].size

C12_PlanetContinuity ==
    (kind = "planet" /\ UniformlyRefined) =>
        \A l \in Leaves : \A d \in CardinalDirections(2) :
            AtCubeEdge(nodes[l], d) =>
                LET found == planet_get_neighbors(nodes, l, d)
                    c == EdgeAxis(nodes[l].direction, FaceAcross(nodes[l].direction, d))
                IN  /\ Len(found) = 1
                    /\ found[1] \in Leaves
                    /\ AgainstSharedEdge(nodes[l], nodes[found[1]], d)
                    /\ nodes[found[1]].world_pos[c] = nodes[l].world_pos[c]

\* the six faces two levels deep, and all of the 24 crossings made by some leaf
C12_Witness ==
    /\ kind = "planet"
    /\ UniformlyRefined
    /\ \A l \in Leaves : 4 * nodes[l].size = RootSize
    /\ \A r \in Range(roots) : \A d \in CardinalDirections(2) :
          \E l \in LeavesUnderIn(nodes, r) :
              /\ AtCubeEdge(nodes[l], d)
              /\ Len(planet_get_neighbors(nodes, l, d)) = 1

(***************************************************************************)
(* C13.  Planet neighbour symmetry across an edge to a finer face: for a   *)
(* leaf L on a cube edge and d its local direction across it, when the     *)
(* leaves of the adjacent face that touch L are smaller than L,            *)
(* get_neighbors(L, d) is exactly those leaves, and M is in                *)
(* get_neighbors(L, d) iff L is in get_neighbors(M, d') for d' the local   *)
(* direction of M back across the edge.                                    *)
(***************************************************************************)
C13_PlanetNeighborSymmetry ==
    kind = "planet" =>
        \A l \in Leaves : \A d \in CardinalDirections(2) :
            ( /\ AtCubeEdge(nodes[l], d)
              /\ \A m \in LeavesAcross(l, d) : nodes[m].size < nodes[l].size )
            => LET to == FaceAcross(nodes[l].direction, d)
                   back == DirectionToward(to, nodes[l].direction)
                   found == Range(planet_get_neighbors(nodes, l, d))
               IN  /\ found = LeavesAcross(l, d)
                   /\ \A m \in LeavesUnderIn(nodes, RootOfFace(to)) :
                         m \in found <=> l \in Range(planet_get_neighbors(nodes, m, back))

(***************************************************************************)
(* C14.  Neighbour-size values (quad and oct): after every sequence of     *)
(* public operations, passes of insert interleaved with passes of          *)
(* insert_and_update_neighbors, for every leaf L and face f,               *)
(* L.neighbor_sizes[f] is the sentinel -1 or max(L.size, N.size) for a     *)
(* leaf N that touches L across f now: no stale size is kept.              *)
(***************************************************************************)
C14_NeighborSizeValues ==
    kind \in {"quad", "oct"} =>
        \A l \in Leaves : \A f \in CardinalDirections(D) :
            \/ nodes[l].neighbor_sizes[neighbor_index(f) + 1] = Unknown
            \/ \E n \in TouchingLeaves(l, f) :
                  nodes[l].neighbor_sizes[neighbor_index(f) + 1]
                      = SetMax({nodes[l].size, nodes[n].size})

(***************************************************************************)
(* C15.  Construction precondition: a tree object exists only for          *)
(* 0 < min_size <= root_size; new(min_size, root_size, root_center) of the *)
(* quad-, oct- and planet-tree constructs no tree otherwise.               *)
(***************************************************************************)
C15_ConstructionPrecondition ==
    /\ 0 < min_size
    /\ \A r \in Range(roots) : min_size <= nodes[r].size

(***************************************************************************)
(* C16.  Stale keys: in every pass, every descendant of the retained node  *)
(* of a Shrunk event stops resolving through get_node; a key handed out    *)
(* earlier that does not resolve never resolves again, also when the pass  *)
(* inserts new nodes, whose keys are all new; and a key that resolves      *)
(* before and after the pass resolves to the same node.                    *)
(***************************************************************************)
C16_Pass ==
    /\ \A i \in EventsOf(events', "Shrunk") :
          \A k \in DescendantsIn(nodes, events'[i].retained) : get_node(nodes', k) = <<>>
    /\ \A k \in 1..(nextKey - 1) :
          get_node(nodes, k) = <<>> => get_node(nodes', k) = <<>>
    /\ \A k \in DOMAIN nodes' :
          IF get_node(nodes, k) = <<>>
          THEN nextKey <= k /\ k < nextKey'
          ELSE /\ CellOf(nodes'[k]) = CellOf(nodes[k])
               /\ nodes'[k].parent = nodes[k].parent

C16_StaleKeys == [][C16_Pass]_vars

\* keys removed by a shrink do not resolve, and nodes inserted after it are live
C16_Witness ==
    /\ passes >= 2
    /\ EventsOf(events, "Shrunk") # {}
    /\ \E k \in 1..(nextKey - 1) : \E j \in Keys :
          /\ get_node(nodes, k) = <<>>
          /\ k \in Range(events[CHOOSE i \in EventsOf(events, "Shrunk") : TRUE].removed)
          /\ j > k

(***************************************************************************)
(* C17.  NeighborSizesChanged emission: the event list returned by         *)
(* insert_and_update_neighbors has a NeighborSizesChanged(M) event for     *)
(* every leaf M that is not a Grown child or a Shrunk retained node of the *)
(* pass and whose neighbor_sizes the pass changed (insert writes no        *)
(* neighbor_sizes, so the change is the bookkeeping phase's).              *)
(***************************************************************************)
C17_Pass ==
    lastOp' = "insert_and_update_neighbors" =>
        \A m \in DOMAIN nodes \cap DOMAIN nodes' :
            ( /\ ~has_children(nodes'[m])
              /\ m \notin Range(UpdatedKeys(events'))
              /\ nodes'[m].neighbor_sizes # nodes[m].neighbor_sizes )
            => \E i \in 1..Len(events') :
                  /\ events'[i].type = "NeighborSizesChanged"
                  /\ events'[i].key = m

C17_NeighborSizesChangedEmission == [][C17_Pass]_vars

(***************************************************************************)
(* C18.  Shrink-grow round trip: for a predicate p of size and centre      *)
(* only and a tree T returned by insert(p), the pass with the predicate    *)
(* that is false everywhere leaves the roots only, and insert(p) after it  *)
(* returns a tree whose leaves, by centre and size, are the leaves of T.   *)
(***************************************************************************)
C18_ShrinkGrowRoundTrip ==
    /\ roundTrip.stage = "shrunk" => Leaves = Range(roots) /\ Keys = Range(roots)
    /\ roundTrip.stage = "regrown" => LeafCells(nodes) = roundTrip.leaves

\* a round trip of a tree with leaves of two sizes, regrown under new keys
C18_Witness ==
    /\ roundTrip.stage = "regrown"
    /\ \E a, b \in roundTrip.leaves : a[1] # b[1]
    /\ \E k \in Leaves : k > Cardinality(roundTrip.leaves) + Len(roots) + 1

(***************************************************************************)
(* C19.  Infallible refinement: in every state reached by passes on a tree *)
(* constructed with 0 < min_size <= size, every key in roots, in a parent  *)
(* field and in a children array is live, and every node is found in the   *)
(* children array of its parent (the unwrap of the ascent); get_neighbors  *)
(* with a live key and a cardinal direction ends on a live node; in every  *)
(* pass, every key popped from the work list and every key of the Grown    *)
(* events built so far is live when the iteration begins; and every        *)
(* Grown.children and Shrunk.retained key handed to the neighbour          *)
(* bookkeeping is live.                                                    *)
(***************************************************************************)
\* the keys stored in the tree are live
StoredKeysLive(ns) ==
    /\ Range(roots) \subseteq DOMAIN ns
    /\ \A k \in DOMAIN ns :
          /\ Range(ns[k].children) \subseteq DOMAIN ns
          /\ ns[k].parent # NoKey =>
                /\ ns[k].parent \in DOMAIN ns
                /\ k \in Range(ns[ns[k].parent].children)

\* the keys of the Grown events of an event list are live in ns
GrownKeysLive(ns, evs) ==
    \A i \in EventsOf(evs, "Grown") :
        evs[i].parent \in DOMAIN ns /\ Range(evs[i].children) \subseteq DOMAIN ns

\* one iteration of the while loop of insert on x = [st, live]: live stays true
\* while the key popped and the keys grow_event reads resolve
live_step(x, f) ==
    IF /\ x.live
       /\ Last(x.st.pending) \in DOMAIN x.st.nodes
       /\ GrownKeysLive(x.st.nodes, x.st.events)
    THEN [st |-> insert_step(x.st, f), live |-> TRUE]
    ELSE [st |-> [x.st EXCEPT !.pending = <<>>], live |-> FALSE]

RECURSIVE live_steps(_, _, _)
live_steps(x, f, n) ==
    IF x.st.pending = <<>> THEN x
    ELSE IF n = 1 THEN live_step(x, f)
    ELSE live_steps(live_steps(x, f, n \div 2), f, n - n \div 2)

RECURSIVE live_loop(_, _, _)
live_loop(x, f, n) ==
    IF x.st.pending = <<>> THEN x ELSE live_loop(live_steps(x, f, n), f, 2 * n)

\* the pass insert(f) on the arena ns pops and reads live keys only
WorkListLive(ns, next, f) ==
    live_loop([st |-> [nodes |-> ns, next |-> next, events |-> <<>>, pending |-> root_items],
               live |-> TRUE], f, 1).live

\* get_neighbors ends on live nodes, from every live key in every cardinal direction
NeighborsLive(ns) ==
    \A k \in DOMAIN ns : \A d \in CardinalDirections(Len(ns[k].pos)) :
        Range(IF kind = "planet" THEN planet_get_neighbors(ns, k, d)
              ELSE get_neighbors(ns, k, d)) \subseteq DOMAIN ns

C19_Pass ==
    /\ StoredKeysLive(nodes) /\ StoredKeysLive(nodes')
    /\ NeighborsLive(nodes')
    /\ WorkListLive(nodes, nextKey, lastPred')
    /\ Range(UpdatedKeys(events')) \subseteq DOMAIN nodes'

C19_InfallibleRefinement == [][C19_Pass]_vars

\* a pass that shrank a subtree two levels deep and grew another node
C19_Witness ==
    /\ passes >= 2
    /\ \E i \in EventsOf(events, "Shrunk") : \E j \in EventsOf(events, "Grown") :
          Len(events[i].removed) > Pow2(D)
    /\ StoredKeysLive(nodes)

(***************************************************************************)
(* C20.  Termination, for min_size > 0: every pass of insert, whatever the *)
(* predicate, comes to an empty work list and returns; an iteration grows  *)
(* a node only when its size exceeds min_size and pops a key that was not  *)
(* popped before in the pass; and on every tree a pass returns, the        *)
(* removal loop started at any node ends within as many iterations as      *)
(* there are nodes, and every chain of parent keys ends at a root and      *)
(* every child names its parent, so that the ascent and the descents of    *)
(* get_neighbors end.                                                      *)
(***************************************************************************)
\* an iteration of the loop of insert pops a new key, and grows above min_size only
C20_Iteration ==
    (lastOp = "inserting" /\ work.pending # <<>> /\ lastOp' = "inserting") =>
        /\ Last(work.pending) \notin Range(work.popped)
        /\ nextKey' # nextKey => nodes[Last(work.pending)].size > min_size

RECURSIVE Climbs(_, _, _)
\* the chain of parent keys from k ends within n steps
Climbs(ns, k, n) ==
    IF ns[k].parent = NoKey THEN TRUE
    ELSE IF n = 0 THEN FALSE
    ELSE Climbs(ns, ns[k].parent, n - 1)

\* the loops of the removal and of get_neighbors end on the tree a pass returned
C20_LoopsEnd ==
    lastOp # "inserting" =>
        \A k \in Keys :
            /\ remove_steps([nodes |-> [nodes EXCEPT ![k].children = <<>>],
                              pending |-> nodes[k].children,
                              removed |-> <<>>],
                             Cardinality(Keys) + 1).pending = <<>>
            /\ Climbs(nodes, k, Cardinality(Keys))
            /\ \A c \in Range(nodes[k].children) : nodes[c].parent = k

C20_Termination ==
    /\ (lastOp = "inserting") ~> (lastOp = "insert")
    /\ [][C20_Iteration]_vars
    /\ []C20_LoopsEnd

\* a pass with the predicate that holds everywhere has returned, after a pass
\* that shrank
C20_Witness ==
    /\ lastOp = "insert"
    /\ min_size > 0
    /\ passes >= 2
    /\ lastPred \in { [leaf |-> T, branch |-> T] : T \in EverywhereOf(Config) }
    /\ \A l \in Leaves : ~(nodes[l].size > min_size)

\* the six faces, in the order of enum Direction
Faces == <<"XNeg", "XPos", "YNeg", "YPos", "ZNeg", "ZPos">>

\* the key of the node without a parent above k in the arena ns
TopOf(ns, k) == CHOOSE a \in {k} \cup AncestorsIn(ns, k) : ns[a].parent = NoKey

\* the roots of a planet-tree and the face tags of its nodes
C21_Roots ==
    kind = "planet" =>
        /\ Len(roots) = 6
        /\ \A i \in 1..6 :
              /\ roots[i] \in Keys
              /\ nodes[roots[i]].parent = NoKey
              /\ nodes[roots[i]].direction = Faces[i]
              /\ DirectionIndex(nodes[roots[i]].direction) = i - 1
        /\ \A i, j \in 1..6 :
              i # j => /\ roots[i] # roots[j]
                       /\ nodes[roots[i]].direction # nodes[roots[j]].direction
        /\ { k \in Keys : nodes[k].parent = NoKey } = Range(roots)
        /\ \A k \in Keys :
              /\ nodes[k].direction = nodes[TopOf(nodes, k)].direction
              /\ nodes[k].direction \in Range(Faces)
              /\ nodes[k].direction # "None"

\* a pass leaves the array of roots, and the tag of every root, as they were
C21_Pass ==
    kind = "planet" =>
        /\ roots' = roots
        /\ \A i \in 1..6 :
              /\ roots[i] \in DOMAIN nodes'
              /\ nodes'[roots[i]].direction = nodes[roots[i]].direction
              /\ nodes'[roots[i]].size = nodes[roots[i]].size
              /\ nodes'[roots[i]].pos = nodes[roots[i]].pos

(***************************************************************************)
(* C21.  Planet roots and face tags: a planet-tree always has exactly six  *)
(* roots, stored in the order X-, X+, Y-, Y+, Z-, Z+ with pairwise         *)
(* distinct face tags in that order; no pass removes or replaces a root;   *)
(* every node carries the tag of the root it descends from, so a leaf's    *)
(* tag is one of the six faces and never None.                             *)
(***************************************************************************)
C21_PlanetRootsAndFaceTags == []C21_Roots /\ [][C21_Pass]_vars

\* a planet-tree after two passes: the last one shrank a face root, which a
\* Shrunk event retains, and grown nodes hang two levels below another root
C21_Witness ==
    /\ kind = "planet"
    /\ passes = 2
    /\ \E i \in 1..Len(events) :
          events[i].type = "Shrunk" /\ events[i].retained \in Range(roots)
    /\ \E l \in Leaves : Cardinality(AncestorsIn(nodes, l)) = 2

RECURSIVE GrownBelow(_, _, _)
\* the cell c and the cells below it whose proper ancestors, from c on, all lie
\* in the set T and are larger than ms
GrownBelow(c, T, ms) ==
    {c} \cup (IF c \in T /\ c[1] > ms
              THEN UNION { GrownBelow(k, T, ms) : k \in ChildCells(c) }
              ELSE {})

\* the keys an event list names, in any field of an event
KeysNamed(evs) ==
    UNION { IF evs[i].type = "Grown"
            THEN {evs[i].parent} \cup Range(evs[i].children)
            ELSE {evs[i].retained} \cup Range(evs[i].removed) : i \in 1..Len(evs) }

\* the step is a call of insert with a predicate of size and centre only
InsertOfGeometric ==
    /\ lastOp' = "insert"
    /\ passes' = passes + 1 \/ roundTrip' # roundTrip
    /\ lastPred'.leaf = lastPred'.branch

C22_Pass ==
    InsertOfGeometric =>
        LET expected == UNION { GrownBelow(CellOf(nodes[r]), lastPred'.leaf, min_size) :
                                  r \in Range(roots) }
        IN  /\ { CellOf(nodes'[k]) : k \in DOMAIN nodes' } = expected
            /\ Cardinality(DOMAIN nodes') = Cardinality(expected)
            /\ \A k \in DOMAIN nodes' :
                  /\ \A a \in AncestorsIn(nodes', k) :
                        CellOf(nodes'[a]) \in lastPred'.leaf /\ nodes'[a].size > min_size
                  /\ CellOf(nodes'[k]) \notin lastPred'.leaf => ~has_children(nodes'[k])
            /\ \A k \in DOMAIN nodes :
                  (/\ \A a \in AncestorsIn(nodes, k) : CellOf(nodes[a]) \in lastPred'.leaf
                   /\ ~has_children(nodes[k])
                   /\ CellOf(nodes[k]) \in lastPred'.leaf
                   /\ nodes[k].size <= min_size)
                  => /\ k \in DOMAIN nodes'
                     /\ nodes'[k] = nodes[k]
                     /\ k \notin KeysNamed(events')

(***************************************************************************)
(* C22.  Single-pass convergence: for a predicate p of size and centre     *)
(* only, the tree after one insert(p) does not depend on the tree before   *)
(* the pass: a node exists in it iff it is a root or every proper ancestor *)
(* A of it has p(A) and A.size > min_size; a visited node with p false     *)
(* ends as a leaf, and a visited leaf with p true and size <= min_size is  *)
(* left as it is, named by no event.                                       *)
(***************************************************************************)
C22_SinglePassConvergence == [][C22_Pass]_vars

\* the second pass, on a tree the first pass refined in one place down to the
\* floor, grew leaves elsewhere and left alone a leaf at the floor on which its
\* predicate holds
C22_Witness ==
    /\ passes = 2
    /\ lastOp = "insert"
    /\ lastPred.leaf = lastPred.branch
    /\ EventsOf(events, "Grown") # {}
    /\ \E l \in Leaves :
          /\ nodes[l].size <= min_size
          /\ Holds(lastPred, nodes[l])
          /\ l \notin KeysNamed(events)

(***************************************************************************)
(* C23.  Face coverage of the bookkeeping: update_neighbor_sizes(L)        *)
(* examines each of the 2 * D cardinal faces of L exactly once:            *)
(* all_neighbor_directions::<D>() yields 2 * D pairwise distinct unit      *)
(* directions that cover both signs of every axis, for D = 2 as well as    *)
(* for D = 3.                                                              *)
(***************************************************************************)
C23_FaceCoverage ==
    lastOp = "insert_and_update_neighbors" =>
        LET directions == all_neighbor_directions(D)
        IN  /\ Len(directions) = 2 * D
            /\ \A i, j \in 1..Len(directions) : i # j => directions[i] # directions[j]
            /\ Range(directions) = CardinalDirections(D)

\* the keys reachable from the roots through the children arrays
Reachable == Range(roots) \cup UNION { DescendantsIn(nodes, r) : r \in Range(roots) }

\* the arena holds the tree and nothing else
C24_Arena ==
    /\ Keys = Reachable
    /\ \A k \in Keys : Range(nodes[k].children) \subseteq Keys
    /\ Leaves = { k \in Reachable : nodes[k].children = <<>> }

\* what a pass deletes and what it adds
C24_Pass ==
    LET shrunk == { events'[i].retained : i \in EventsOf(events', "Shrunk") }
        deleted == DOMAIN nodes \ DOMAIN nodes'
        added == DOMAIN nodes' \ DOMAIN nodes
        grew == { k \in DOMAIN nodes' : has_children(nodes'[k]) /\
                     (k \in added \/ ~has_children(nodes[k])) }
    IN  /\ deleted = UNION { DescendantsIn(nodes, n) : n \in shrunk }
        /\ added = UNION { Range(nodes'[k].children) : k \in grew }
        /\ Cardinality(added) = Cardinality(grew) * Power(2, D)
        /\ \A k \in grew : Len(nodes'[k].children) = Power(2, D)
        /\ \A k \in added : nodes'[k].parent \in grew
        /\ \A k \in DOMAIN nodes \cap DOMAIN nodes' :
              /\ nodes'[k].size = nodes[k].size
              /\ nodes'[k].pos = nodes[k].pos
              /\ nodes'[k].parent = nodes[k].parent

(***************************************************************************)
(* C24.  No orphans: after every pass the arena holds exactly the nodes    *)
(* reachable from the roots through the children arrays; a shrink of N     *)
(* deletes every descendant of N and no other node, and a grow adds only   *)
(* the 2^D children of the leaf that grew; so the arena entries without    *)
(* children are exactly the leaves of the tree, and size, centre and       *)
(* parent of a node never change while its key is live.                    *)
(***************************************************************************)
C24_NoOrphans == []C24_Arena /\ [][C24_Pass]_vars

\* a pass that deleted a subtree of two levels and grew a leaf elsewhere
C24_Witness ==
    /\ passes = MaxPasses
    /\ EventsOf(events, "Grown") # {}
    /\ \E i \in EventsOf(events, "Shrunk") : Len(events[i].removed) >= 2 * Power(2, D) - 1
    /\ Keys = Reachable

\* the slot (1-based) of neighbor_sizes for the face in the cardinal direction f
FaceSlot(f) == 2 * (AxisOf(f) - 1) + (IF f[AxisOf(f)] = -1 THEN 0 ELSE 1) + 1

(***************************************************************************)
(* C25.  Boundary sentinel (quad and oct): in every reachable state, for   *)
(* every node L and every face f of L on the root's boundary,              *)
(* L.neighbor_sizes[f] is -1; so all the slots of the root are -1 at all   *)
(* times, also after a Shrunk event retained the root; and after the root  *)
(* grew once with neighbour update each of its 2^D children holds its own  *)
(* size on its D interior faces and -1 on its D exterior faces.            *)
(***************************************************************************)
C25_BoundarySentinel ==
    kind \in {"quad", "oct"} =>
        /\ \A k \in Keys : \A f \in CardinalDirections(D) :
              OnBoundary(nodes[k], nodes[roots[1]], f)
                  => nodes[k].neighbor_sizes[FaceSlot(f)] = Unknown
        /\ \A i \in 1..(2 * D) : nodes[roots[1]].neighbor_sizes[i] = Unknown
        /\ (/\ lastOp = "insert_and_update_neighbors"
            /\ passes = 1
            /\ has_children(nodes[roots[1]])
            /\ \A c \in Range(nodes[roots[1]].children) : ~has_children(nodes[c]))
           => \A c \in Range(nodes[roots[1]].children) :
                 /\ Cardinality({ f \in CardinalDirections(D) :
                        nodes[c].neighbor_sizes[FaceSlot(f)] = nodes[c].size }) = D
                 /\ Cardinality({ f \in CardinalDirections(D) :
                        nodes[c].neighbor_sizes[FaceSlot(f)] = Unknown }) = D
                 /\ \A f \in CardinalDirections(D) :
                       nodes[c].neighbor_sizes[FaceSlot(f)] =
                           IF OnBoundary(nodes[c], nodes[roots[1]], f)
                           THEN Unknown ELSE nodes[c].size

\* the root grew with neighbour update, its children wrote their interior
\* faces, and the next pass shrank it: a Shrunk event retains the root
C25_Witness ==
    /\ kind \in {"quad", "oct"}
    /\ lastOp = "insert_and_update_neighbors"
    /\ passes = 2
    /\ Len(events) = 1
    /\ events[1].type = "Shrunk"
    /\ events[1].retained = roots[1]
    /\ \A i \in 1..(2 * D) : nodes[roots[1]].neighbor_sizes[i] = Unknown

(***************************************************************************)
(* C26.  Planet neighbour-size slot in the neighbour's frame: when a       *)
(* neighbour M of L lies on a different face, the slot of M that the       *)
(* bookkeeping updates is the one of M's face that touches L: for each of  *)
(* the 24 crossings (source face, outward direction d), with target face   *)
(* T = map_to_neighbor(source, d), map_from_dir_to_dir(source, T, -d) is   *)
(* the cardinal direction, in T's local frame, that points from T across   *)
(* the shared cube edge back to the source face.                           *)
(***************************************************************************)
C26_SlotInNeighborFrame ==
    kind = "planet" =>
        /\ \A l \in Leaves : \A d \in CardinalDirections(2) :
              \A m \in Range(planet_get_neighbors(nodes, l, d)) :
                  nodes[m].direction # nodes[l].direction
                      => neighbour_opposite_dir(nodes, l, m, d)
                            = DirectionToward(nodes[m].direction, nodes[l].direction)
        /\ \A r \in Range(roots) : \A d \in CardinalDirections(2) :
              LET source == nodes[r].direction
                  T == map_to_neighbor(source, d).dir
              IN  /\ T = FaceAcross(source, d)
                  /\ map_from_dir_to_dir(source, T, Negate(d)) = DirectionToward(T, source)

\* every face has a leaf below its root, on each of its four cube edges, that
\* finds a neighbour on the face across the edge
C26_Witness ==
    /\ kind = "planet"
    /\ passes >= 1
    /\ \E r \in Range(roots) : \A d \in CardinalDirections(2) :
          \E l \in LeavesUnderIn(nodes, r) :
              /\ nodes[l].parent # NoKey
              /\ \E m \in Range(planet_get_neighbors(nodes, l, d)) :
                    nodes[m].direction = FaceAcross(nodes[l].direction, d)

\* the face roots a pass grew: leaves before it and branches after it
RootsGrown == { r \in Range(roots) : ~has_children(nodes[r]) /\ has_children(nodes'[r]) }

C27_Pass ==
    (kind = "planet" /\ lastOp' = "insert") =>
        LET grown == EventsOf(events', "Grown")
            added == DOMAIN nodes' \ DOMAIN nodes
        IN  /\ \A i \in grown : \A c \in Range(events'[i].children) :
                  /\ c \in DOMAIN nodes'
                  /\ nodes'[c].direction = nodes'[events'[i].parent].direction
                  /\ c \in LeavesUnderIn(nodes', events'[i].parent)
            /\ (added \subseteq UNION { DescendantsIn(nodes', r) : r \in RootsGrown })
                  => /\ Cardinality(grown) = Cardinality(RootsGrown)
                     /\ { events'[i].parent : i \in grown } = RootsGrown
                     /\ \A i, j \in grown :
                           i # j => nodes'[events'[i].parent].direction
                                        # nodes'[events'[j].parent].direction

(***************************************************************************)
(* C27.  Planet grow events stay per face: in an insert pass of a          *)
(* planet-tree a Grown event whose parent lies on one face never takes in  *)
(* the children of a node grown on another face, although the local 2D     *)
(* coordinates of the six faces coincide; a pass that grows k face roots   *)
(* (and any of their descendants) returns exactly k Grown events, one per  *)
(* face, each listing leaves of its own face only.                         *)
(***************************************************************************)
C27_GrownPerFace == [][C27_Pass]_vars

\* a pass grew the roots of several faces and nodes below them: one Grown event
\* per face, with more keys than the four children of its root
C27_Witness ==
    /\ kind = "planet"
    /\ lastOp = "insert"
    /\ passes = 1
    /\ Cardinality(EventsOf(events, "Grown")) >= 2
    /\ \A i \in EventsOf(events, "Grown") :
          /\ events[i].parent \in Range(roots)
          /\ Len(events[i].children) > 4

\* bit a (0-based) of the number i
BitOf(i, a) == (i \div Power(2, a)) % 2

\* the sign vector of the child index i: +1 on axis a iff bit a of i is 1
SignVector(i, dim) == Vec([a \in 1..dim |-> IF BitOf(i, a - 1) = 1 THEN 1 ELSE -1])

(***************************************************************************)
(* C28.  Child ordering contract: for D = 2 and D = 3 and every child      *)
(* index i in [0, 2^D), child_position(i) is the sign vector whose         *)
(* component on axis a is +1 iff bit a of i is 1 and -1 otherwise, and     *)
(* get_child(child_position(i)) returns children[i]: addressing a child by *)
(* linear index and by direction agree, and the map is a bijection between *)
(* [0, 2^D) and {-1, +1}^D.                                                *)
(***************************************************************************)
C28_ChildOrdering ==
    /\ \A i \in 0..(Power(2, D) - 1) : child_position(i, D) = SignVector(i, D)
    /\ { child_position(i, D) : i \in 0..(Power(2, D) - 1) } = [1..D -> {-1, 1}]
    /\ \A i, j \in 0..(Power(2, D) - 1) :
          i # j => child_position(i, D) # child_position(j, D)
    /\ \A n \in Branches : \A i \in 0..(Power(2, D) - 1) :
          /\ get_child(nodes[n], child_position(i, D)) = nodes[n].children[i + 1]
          /\ get_child_index(nodes[n], nodes[n].children[i + 1]) = i
          /\ child_position_from_key(nodes[n], nodes[n].children[i + 1])
                = SignVector(i, D)

\* an oct-tree two levels deep: the root and one of its children are branches
C28_Witness ==
    /\ kind = "oct"
    /\ \E n \in Branches : \E i \in 0..7 :
          /\ nodes[n].parent # NoKey
          /\ get_child(nodes[n], child_position(i, 3)) = nodes[n].children[i + 1]
          /\ get_child(nodes[n], <<-1, -1, 1>>) = nodes[n].children[5]

(***************************************************************************)
(* C29.  Face indexing: for D = 2 and D = 3 and every cardinal direction   *)
(* (one nonzero component s on axis a), neighbor_index returns             *)
(* 2 * a + (0 if s = -1, 1 if s = +1), a value in [0, 2 * D) that is       *)
(* distinct for distinct cardinal directions; for the all-zero direction   *)
(* it returns the absence value.                                           *)
(***************************************************************************)
C29_FaceIndexing ==
    /\ \A f \in CardinalDirections(D) :
          /\ neighbor_index(f)
                = 2 * (AxisOf(f) - 1) + (IF f[AxisOf(f)] = -1 THEN 0 ELSE 1)
          /\ neighbor_index(f) \in 0..(2 * D - 1)
    /\ \A f, g \in CardinalDirections(D) : f # g => neighbor_index(f) # neighbor_index(g)
    /\ neighbor_index(Vec([a \in 1..D |-> 0])) = -1
    /\ \A k \in Keys : \A f \in CardinalDirections(D) :
          neighbor_index(f) + 1 \in DOMAIN nodes[k].neighbor_sizes

\* an oct-tree after a pass with neighbour update: a leaf holds a size in the
\* slot of a face a leaf touches and the sentinel in the slot of the face opposite
C29_Witness ==
    /\ kind = "oct"
    /\ lastOp = "insert_and_update_neighbors"
    /\ \E l \in Leaves : \E f \in CardinalDirections(3) :
          /\ TouchingLeaves(l, f) # {}
          /\ nodes[l].neighbor_sizes[neighbor_index(f) + 1] = nodes[l].size
          /\ nodes[l].neighbor_sizes[neighbor_index(Negate(f)) + 1] = Unknown

(***************************************************************************)
(* C30.  Planet world position: every node of a planet-tree satisfies the  *)
(* embedding of its face: on X+/X- world (y, z) are the local (0, 1) and   *)
(* world x is root_center.x +/- root_size / 2; on Y+/Y- world (x, z) are   *)
(* the local (0, 1) and world y is fixed at root_center.y +/- root_size /  *)
(* 2; on Z+/Z- world (x, y) are the local (0, 1) and world z is fixed at   *)
(* root_center.z +/- root_size / 2; children inherit the fixed coordinate  *)
(* of their parent unchanged.  (The trees are constructed at the origin.)  *)
(***************************************************************************)
C30_WorldPosition ==
    kind = "planet" =>
        \A k \in Keys :
            LET n == nodes[k]
                a == FaceAxis(n.direction)
            IN  /\ n.world_pos[LocalAxes(n.direction)[1]] = n.pos[1]
                /\ n.world_pos[LocalAxes(n.direction)[2]] = n.pos[2]
                /\ 2 * n.world_pos[a] = FaceSign(n.direction) * RootSize
                /\ n.direction \in {"XPos", "XNeg"}
                      => n.world_pos[2] = n.pos[1] /\ n.world_pos[3] = n.pos[2]
                /\ n.direction \in {"YPos", "YNeg"}
                      => n.world_pos[1] = n.pos[1] /\ n.world_pos[3] = n.pos[2]
                /\ n.direction \in {"ZPos", "ZNeg"}
                      => n.world_pos[1] = n.pos[1] /\ n.world_pos[2] = n.pos[2]
                /\ n.parent # NoKey => n.world_pos[a] = nodes[n.parent].world_pos[a]

\* a leaf two levels below the root of Y-, with different local coordinates
C30_Witness ==
    /\ kind = "planet"
    /\ \E l \in Leaves :
          /\ nodes[l].direction = "YNeg"
          /\ Cardinality(AncestorsIn(nodes, l)) = 2
          /\ Abs(nodes[l].pos[1]) # Abs(nodes[l].pos[2])
          /\ nodes[l].world_pos = <<nodes[l].pos[1], -(RootSize \div 2), nodes[l].pos[2]>>

====
